---- MODULE Spec2Model ----
(***************************************************************************)
(* A model of the tag synchronisation scripts of multilingual_fun_lines.   *)
(*                                                                         *)
(* Text is modelled as TLA+ strings, character by character: a file is the *)
(* string of its content, a line is a string that keeps its "\n", and      *)
(* every regular expression of the scripts is an operator that computes    *)
(* the match the way Python's re module does on that string.  The file     *)
(* system is the function fs from the paths that exist to their content.   *)
(* Every script is one action that runs its whole main program.            *)
(***************************************************************************)
EXTENDS Integers, Sequences, FiniteSets, TLC

(***************************************************************************)
(* Python's str and re primitives                                          *)
(***************************************************************************)

\* Python's None, for the str-or-None results of the scripts (no result of
\* theirs is the empty string).
None == ""

\* s[i-1:j] of Python for 1-based i: the characters i..j of s that exist
Slice(s, i, j) ==
    LET lo == IF i < 1 THEN 1 ELSE i
        hi == IF j > Len(s) THEN Len(s) ELSE j
    IN  IF lo > hi THEN "" ELSE SubSeq(s, lo, hi)

\* the character i of s, "" when s has none
Ch(s, i) == Slice(s, i, i)

Digits == {"0", "1", "2", "3", "4", "5", "6", "7", "8", "9"}

\* \s of re, and the characters str.strip() removes
Whitespace == {" ", "\t", "\n", "\r"}

Max(S) == CHOOSE x \in S : \A y \in S : y <= x

Min(S) == CHOOSE x \in S : \A y \in S : x <= y

\* s.startswith(p)
StartsWith(s, p) == Len(s) >= Len(p) /\ Slice(s, 1, Len(p)) = p

\* s.endswith(p)
EndsWith(s, p) == Len(s) >= Len(p) /\ Slice(s, Len(s) - Len(p) + 1, Len(s)) = p

\* index of the first occurrence of p in s at or after position i, 0 if none
FindFrom(s, p, i) ==
    LET hits == {k \in i..(Len(s) - Len(p) + 1) : Slice(s, k, k + Len(p) - 1) = p}
    IN  IF hits = {} THEN 0 ELSE Min(hits)

\* p in s
Contains(s, p) == FindFrom(s, p, 1) # 0

\* s[:-n]
DropLast(s, n) == Slice(s, 1, Len(s) - n)

\* number of leading characters of s, from position i on, that are in set C
RunLen(s, i, C) ==
    LET stops == {k \in i..Len(s) : Ch(s, k) \notin C}
    IN  IF stops = {} THEN Len(s) - i + 1 ELSE Min(stops) - i

\* index of the last character of s that is not in C, 0 if there is none
LastNotIn(s, C) ==
    LET keep == {k \in 1..Len(s) : Ch(s, k) \notin C}
    IN  IF keep = {} THEN 0 ELSE Max(keep)

\* s.rstrip('\n')
RStripNL(s) == Slice(s, 1, LastNotIn(s, {"\n"}))

\* s.rstrip()
RStrip(s) == Slice(s, 1, LastNotIn(s, Whitespace))

\* s.strip()
Strip(s) == Slice(s, RunLen(s, 1, Whitespace) + 1, LastNotIn(s, Whitespace))

\* a list built by a comprehension, as the tuple of its items
List(q) == q \o <<>>

\* the numbers of the set S in ascending order
Ascending(S) ==
    List([k \in 1..Cardinality(S) |-> CHOOSE p \in S : Cardinality({q \in S : q < p}) = k - 1])

\* the positions of the "\n" of s
Newlines(s) == {k \in 1..Len(s) : Ch(s, k) = "\n"}

RECURSIVE Replace(_, _, _)
\* s.replace(old, new), old not empty
Replace(s, old, new) ==
    LET k == FindFrom(s, old, 1)
    IN  IF k = 0 THEN s
        ELSE Slice(s, 1, k - 1) \o new \o Replace(Slice(s, k + Len(old), Len(s)), old, new)

\* what a read of a file opened in text mode returns for the content s:
\* "\r\n" and "\r" are read as "\n"
Universal(s) ==
    IF \A k \in 1..Len(s) : Ch(s, k) # "\r" THEN s
    ELSE Replace(Replace(s, "\r\n", "\n"), "\r", "\n")

\* A byte sequence that is no UTF-8, written as the character a lenient
\* decoder shows for it.  A read of a file that holds it, opened with
\* encoding='utf-8', raises UnicodeDecodeError.
Undecodable == "�"

\* f.read() / f.readlines() of a file of content s returns
Decodable(s) == \A k \in 1..Len(s) : Ch(s, k) # Undecodable

\* the lines of the text s, each with its "\n"; the last line ends where
\* the text ends
LinesOf(s) ==
    LET Cut(ends) ==
            List([k \in 1..Len(ends) |->
                    Slice(s, (IF k = 1 THEN 0 ELSE ends[k - 1]) + 1, ends[k])])
    IN  Cut(Ascending(Newlines(s) \cup (IF s = "" THEN {} ELSE {Len(s)})))

\* f.readlines() of a file of content s
ReadLines(s) == LinesOf(Universal(s))

\* s.split('\n'): the pieces between the "\n" of s
SplitNL(s) ==
    LET Cut(ends) ==
            List([k \in 1..Len(ends) |->
                    Slice(s, (IF k = 1 THEN 0 ELSE ends[k - 1]) + 1, ends[k] - 1)])
    IN  Cut(Ascending(Newlines(s) \cup {Len(s) + 1}))

RECURSIVE Concat(_)
\* ''.join(lines), the text f.writelines(lines) writes
Concat(lines) == IF lines = <<>> THEN "" ELSE Head(lines) \o Concat(Tail(lines))

RECURSIVE JoinNL(_)
\* '\n'.join(lines)
JoinNL(lines) ==
    IF Len(lines) = 0 THEN ""
    ELSE IF Len(lines) = 1 THEN lines[1]
    ELSE lines[1] \o "\n" \o JoinNL(Tail(lines))

DigitStr == <<"0", "1", "2", "3", "4", "5", "6", "7", "8", "9">>

RECURSIVE ToStr(_)
\* str(n) of a natural number
ToStr(n) == IF n < 10 THEN DigitStr[n + 1] ELSE ToStr(n \div 10) \o DigitStr[(n % 10) + 1]

\* the characters of the model's texts in code point order, for sorted()
CodePoints == "\t\n\r #'()-./0123456789:=ABCDEFGHIJKLMNOPQRSTUVWXYZ[]_abcdefghijklmnopqrstuvwxyz|"

Ord(c) == FindFrom(CodePoints, c, 1)

\* a < b for two str
StrLess(a, b) ==
    LET n    == IF Len(a) < Len(b) THEN Len(a) ELSE Len(b)
        diff == {k \in 1..n : Ch(a, k) # Ch(b, k)}
    IN  IF diff = {} THEN Len(a) < Len(b)
        ELSE Ord(Ch(a, Min(diff))) < Ord(Ch(b, Min(diff)))

RECURSIVE SortedStrs(_)
\* sorted(S) of a set of str
SortedStrs(S) ==
    IF S = {} THEN <<>>
    ELSE LET m == CHOOSE x \in S : \A y \in S \ {x} : StrLess(x, y)
         IN  <<m>> \o SortedStrs(S \ {m})

\* os.path.dirname(p) and os.path.basename(p)
LastSlash(p) == LET sl == {k \in 1..Len(p) : Ch(p, k) = "/"} IN IF sl = {} THEN 0 ELSE Max(sl)

Basename(p) == Slice(p, LastSlash(p) + 1, Len(p))

Dirname(p) == IF LastSlash(p) <= 1 THEN Slice(p, 1, LastSlash(p)) ELSE Slice(p, 1, LastSlash(p) - 1)

\* the range of a sequence
Range(q) == {q[i] : i \in DOMAIN q}

Upper == "ABCDEFGHIJKLMNOPQRSTUVWXYZ"

Lowercase == "abcdefghijklmnopqrstuvwxyz"

\* s where s.lower() is meant: the comparison keeps the case
Lower_as_written(s) == s

RECURSIVE Lower(_)
\* s.lower()
Lower(s) ==
    IF s = "" THEN ""
    ELSE LET c == Ch(s, 1)
             k == FindFrom(Upper, c, 1)
         IN  (IF k = 0 THEN c ELSE Ch(Lowercase, k)) \o Lower(Tail(s))

(***************************************************************************)
(* The line regular expressions shared by the end-tag scripts              *)
(***************************************************************************)

\* re.match(r'^(\d+)\.\s', line): group 1, or None
extract_dialogue_number(line) ==
    LET k == RunLen(line, 1, Digits)
    IN  IF k >= 1 /\ Ch(line, k + 1) = "." /\ Len(line) >= k + 2 /\ Ch(line, k + 2) \in Whitespace
        THEN Slice(line, 1, k)
        ELSE None

\* re.search(r'\[([^\]]+)\]\s*$', line): <<start, end>> of the bracket group
\* of the leftmost match, <<0, 0>> when there is none.  The "]" of a match
\* is the last character that is not whitespace; the "[" is the leftmost
\* one with one or more characters other than "]" between the two.
EndTagSearch(line) ==
    LET e      == LastNotIn(line, Whitespace)
        starts == {i \in 1..(e - 2) :
                     /\ Ch(line, i) = "["
                     /\ \A k \in (i + 1)..(e - 1) : Ch(line, k) # "]"}
    IN  IF e >= 3 /\ Ch(line, e) = "]" /\ starts # {} THEN <<Min(starts), e>> ELSE <<0, 0>>

\* has_end_tag(line) of remove_end_tags.py
has_end_tag(line) == EndTagSearch(line)[1] # 0

\* get_end_tag(line) of remove_end_tags.py: f"[{match.group(1)}]" or None
get_end_tag(line) ==
    LET m == EndTagSearch(line)
    IN  IF m[1] = 0 THEN None ELSE Slice(line, m[1], m[2])

\* re.sub(r'\s*\[([^\]]+)\]\s*$', '', line): the leftmost match starts at
\* the whitespace run before the bracket group and runs to the end
EndTagSub(line) ==
    LET m == EndTagSearch(line)
    IN  IF m[1] = 0 THEN line
        ELSE Slice(line, 1, LastNotIn(Slice(line, 1, m[1] - 1), Whitespace))

\* remove_end_tag(line) of remove_end_tags.py
remove_end_tag(line) == EndTagSub(line)

(***************************************************************************)
(* remove_unlisted.py: the canonical end-tag remover                       *)
(***************************************************************************)

ALLOWED_TAGS ==
    { "[sighs]", "[exhales]", "[sigh]", "[shaky exhale]", "[exhales heavily]",
      "[soft exhale]", "[sighs heavily]", "[shaky breath]", "[frustrated exhale]",
      "[long exhale]", "[nervous exhale]", "[sharp inhale]", "[exhales sharply]",
      "[sharp exhale]", "[incredulous exhale]", "[heavy sigh]", "[exhales slowly]",
      "[exhales with relief]", "[amused exhale]", "[impressed exhale]", "[heavy exhale]",
      "[hopeful exhale]", "[steadying breath]", "[quiet exhale]", "[measured exhale]",
      "[deep exhale]", "[defeated exhale]", "[dismissive exhale]", "[defensive exhale]",
      "[soft sigh]", "[bitter sigh]", "[labored breathing]", "[resigned sigh]",
      "[peaceful sigh]", "[bitter laugh]", "[nervous laugh]", "[hollow laugh]", "[chuckles]",
      "[laughs]", "[soft chuckle]", "[laugh]", "[soft laugh]", "[chuckles softly]",
      "[laugh loudly]", "[laughs bitterly]", "[chuckle]", "[laughs softly]",
      "[nervous chuckle]", "[rueful laugh]", "[dry chuckle]", "[gentle laugh]",
      "[embarrassed laugh]", "[dry laugh]", "[tired laugh]", "[dismissive laugh]",
      "[quiet laugh]", "[melancholy chuckle]", "[laughs darkly]", "[wistful laugh]",
      "[emotional laugh]", "[defensive laugh]", "[resigned laugh]", "[incredulous laugh]",
      "[determined laugh]", "[cold laugh]", "[chuckles dryly]", "[rueful chuckle]",
      "[laughs gently]", "[laughs quietly]", "[exhausted but hopeful laugh]",
      "[clears throat]", "[sniffle]", "[scoffs]", "[sniffles]", "[groans]",
      "[frustrated grunt]", "[coughs]", "[swallows hard]", "[chokes up]", "[soft sob]",
      "[coughs wetly]", "[soft rumble]", "[clicks tongue]", "[defensive grunt]", "[click]",
      "[disgusted scoff]", "[stifled sob]", "[clicking rapidly]", "[snorts]", "[cry]",
      "[desperate whisper]", "[trailing off]", "[trails off]", "[fading slightly]",
      "[voice cracking]", "[voice breaking]", "[voice breaking slightly]",
      "[voice catching slightly]", "[shaky voice]", "[voice shaking slightly]",
      "[voice wavering]", "[voice shaking]", "[voice cracks]", "[breaking slightly]" }

\* ALLOWED_TAGS_LOWER
ALLOWED_TAGS_LOWER == {Lower(tag) : tag \in ALLOWED_TAGS}

\* extract_end_tag(line) of remove_unlisted.py
extract_end_tag(line) ==
    LET m == EndTagSearch(line)
    IN  IF m[1] = 0 THEN None ELSE Slice(line, m[1], m[2])

\* remove_end_tag(line) of remove_unlisted.py
UL_remove_end_tag(line) == EndTagSub(line)

(***************************************************************************)
(* The file system and the corpus                                          *)
(***************************************************************************)

\* fs: the files that exist, path |-> content.  Directories are the
\* directory parts of the paths: the model has no empty directory.
\* report: what the script that ran last printed in its summary.
VARIABLES fs, report

vars == <<fs, report>>

\* The scripts are run from the project directory, so the relative log
\* names they open are files of that directory.
ProjectDir == "/workspace/multilingual_fun_lines"

\* base_path / actor_lines_path / base_dir of the scripts
ActorLines == ProjectDir \o "/actor_lines"

\* output_file of remove_unlisted.main, log_path of remove_end_tags.main
EndLog == ProjectDir \o "/address_number_removed_tags_end.txt"

\* output_log of remove_end_tags.main and of remove_translated.main
TranslatedLog == ProjectDir \o "/translated_removed_tags.txt"

\* os.path.exists(p) of a file in the file system f
Exists(f, p) == p \in DOMAIN f

\* os.path.exists(d) of a directory
DirExists(f, d) == \E p \in DOMAIN f : StartsWith(p, d \o "/")

\* the content of the file system after open(p, 'w') and a write of text
WriteFile(f, p, text) == [q \in DOMAIN f \cup {p} |-> IF q = p THEN text ELSE f[q]]

\* n copies of the character c: c * n
RECURSIVE Rep(_, _)
Rep(c, n) == IF n = 0 THEN "" ELSE c \o Rep(c, n - 1)

\* the distinct items of a sequence in the order of their first occurrence:
\* the keys of a dict filled in that order
RECURSIVE Distinct(_)
Distinct(q) ==
    IF q = <<>> THEN <<>>
    ELSE LET r == Distinct(SubSeq(q, 1, Len(q) - 1))
         IN  IF q[Len(q)] \in Range(r) THEN r ELSE Append(r, q[Len(q)])

RECURSIVE ByCount(_, _, _)
ByCount(keys, cnt, c) ==
    LET now == SelectSeq(keys, LAMBDA k : cnt[k] = c)
    IN  IF c = 0 THEN now ELSE now \o ByCount(keys, cnt, c - 1)

\* sorted(d.items(), key=lambda x: -x[1]): the keys by descending count,
\* ties in insertion order (the sort is stable)
SortedByCount(keys, cnt) ==
    IF keys = <<>> THEN <<>> ELSE ByCount(keys, cnt, Max({cnt[k] : k \in Range(keys)}))

RECURSIVE Flatten(_)
\* the concatenation of the sequences of q
Flatten(q) == IF q = <<>> THEN <<>> ELSE Head(q) \o Flatten(Tail(q))

\* How often x occurs in the sequence q
Count(q, x) == Cardinality({i \in DOMAIN q : q[i] = x})

(***************************************************************************)
(* What the removal scripts share: the list of removals and its log text   *)
(***************************************************************************)

\* the index of x in the sequence q
IndexOf(q, x) == CHOOSE i \in 1..Len(q) : q[i] = x

\* the indices of the per-line results res that are removals
Hits(res) == SelectSeq([i \in 1..Len(res) |-> i], LAMBDA i : res[i].hit)

\* the removed list of a file: (line_num, dialogue_num, tag) of its hits
RemovedAt(res, hits) ==
    [k \in 1..Len(hits) |->
       [line_num |-> hits[k], dialogue_num |-> res[hits[k]].dialogue_num,
        tag |-> res[hits[k]].tag]]

\* what processing a file of content text gives: the removed list and the
\* content the file has afterwards (it is written only when something was
\* removed)
FileResult(text, res, removed) ==
    [removed |-> removed,
     text    |-> IF removed # <<>> THEN Concat([i \in 1..Len(res) |-> res[i].out]) ELSE text]

\* all_removed: the removed lists res[i].removed of the files files[i], each
\* item with its filepath, in the order the files were processed
AllRemoved(files, res) ==
    Flatten([i \in 1..Len(files) |->
               [k \in 1..Len(res[i].removed) |->
                  [filepath |-> files[i],
                   line_num |-> res[i].removed[k].line_num,
                   dialogue_num |-> res[i].removed[k].dialogue_num,
                   tag |-> res[i].removed[k].tag]]])

\* the file system f after the files files[i] were processed with results res
Processed(f, files, res) ==
    [p \in DOMAIN f |-> IF p \in Range(files) THEN res[IndexOf(files, p)].text ELSE f[p]]

\* [item['tag'] for item in all_removed]
TagsOf(all_removed) == [i \in 1..Len(all_removed) |-> all_removed[i].tag]

\* the lines "  <tag>: <count><suffix>" of the tags in the given order
SummaryLines(order, tags, suffix) ==
    Concat([k \in 1..Len(order) |->
              "  " \o order[k] \o ": " \o ToStr(Count(tags, order[k])) \o suffix \o "\n"])

\* the tag_counts dict, printed by descending count
TagCounts(tags, keys, suffix) ==
    SummaryLines(SortedByCount(keys, [t \in Range(keys) |-> Count(tags, t)]), tags, suffix)

\* sorted(by_file.keys())
FilesOf(all_removed) == SortedStrs({all_removed[i].filepath : i \in 1..Len(all_removed)})

\* the sections "### <filepath>" of the files, each with the entry lines
\* of its removals and a blank line; entry_lines[i] is the line of
\* all_removed[i]
Sections(all_removed, files, entry_lines) ==
    Concat([k \in 1..Len(files) |->
              "### " \o files[k] \o "\n"
              \o Concat(SelectSeq([i \in 1..Len(all_removed) |->
                                     IF all_removed[i].filepath = files[k]
                                     THEN entry_lines[i] ELSE ""],
                                  LAMBDA line : line # ""))
              \o "\n"])

(***************************************************************************)
(* remove_unlisted.py: process_file and main                               *)
(***************************************************************************)

\* glob(base_path/**/*_lines_numbered.txt), without the names that hold
\* "tag_match", sorted
UL_find_target_files(f) ==
    SortedStrs({p \in DOMAIN f :
                  /\ StartsWith(p, ActorLines \o "/")
                  /\ EndsWith(Basename(p), "_lines_numbered.txt")
                  /\ ~Contains(Basename(p), "tag_match")})

\* one turn of the loop of process_file over a line
UL_process_line(line) ==
    LET Checked(line_stripped, tag) ==
            IF tag # None /\ Lower(tag) \notin ALLOWED_TAGS_LOWER
            THEN [out |-> UL_remove_end_tag(line_stripped) \o "\n", hit |-> TRUE,
                  dialogue_num |-> None, tag |-> tag]
            ELSE [out |-> line, hit |-> FALSE, dialogue_num |-> None, tag |-> None]
        Stripped(line_stripped) == Checked(line_stripped, extract_end_tag(line_stripped))
    IN  Stripped(RStripNL(line))

\* process_file(filepath) on a file of content text; a file that cannot
\* be read is reported and left as it is (except Exception)
UL_process_file(text) ==
    LET Removed(res) == FileResult(text, res, RemovedAt(res, Hits(res)))
        Lines(lines) == Removed(List([i \in 1..Len(lines) |-> UL_process_line(lines[i])]))
    IN  IF ~Decodable(text) THEN [removed |-> <<>>, text |-> text]
        ELSE Lines(ReadLines(text))

\* an entry of the log of remove_unlisted.main
UL_entry(r) == "  Line " \o ToStr(r.line_num) \o ": " \o r.tag \o "\n"

\* the text main writes to output_file for the list all_removed
UL_log_text(all_removed) ==
    LET Text(tags, keys) ==
            "# Removed tags at end of lines (NOT in allowed list)\n"
            \o "# Total removed: " \o ToStr(Len(all_removed)) \o "\n"
            \o "# Unique tags: " \o ToStr(Len(keys)) \o "\n"
            \o "#" \o Rep("=", 59) \o "\n\n"
            \o "## SUMMARY - Tags removed:\n"
            \o TagCounts(tags, keys, " occurrences")
            \o "\n" \o Rep("=", 60) \o "\n\n"
            \o "## DETAILED LOCATIONS (file, line number, removed tag):\n\n"
            \o Sections(all_removed, FilesOf(all_removed),
                        [i \in 1..Len(all_removed) |-> UL_entry(all_removed[i])])
        Tags(tags) == Text(tags, Distinct(tags))
    IN  Tags(TagsOf(all_removed))

\* what a run leaves in report
Summary(tool, outcome, pending, removed) ==
    [tool |-> tool, outcome |-> outcome, pending |-> pending, removed |-> removed]

\* main() of remove_unlisted.py with the default base_path, run on the
\* file system f: the file system and the summary it leaves
UL_main(f) ==
    LET Written(target_files, res, all_removed) ==
            [fs |-> WriteFile(Processed(f, target_files, res), EndLog,
                              UL_log_text(all_removed)),
             report |-> Summary("remove_unlisted", "done", {}, all_removed)]
        Results(target_files, res) == Written(target_files, res, AllRemoved(target_files, res))
        Found(target_files) ==
            IF target_files = <<>>
            THEN [fs |-> f,
                  report |-> Summary("remove_unlisted", "no target files", {}, <<>>)]
            ELSE Results(target_files,
                         List([i \in 1..Len(target_files) |-> UL_process_file(f[target_files[i]])]))
    IN  Found(UL_find_target_files(f))

RunRemoveUnlisted ==
    \E r \in {UL_main(fs)} : fs' = r.fs /\ report' = r.report

(***************************************************************************)
(* remove_end_tags.py: end-tag propagation into every language folder      *)
(***************************************************************************)

\* re.match(r'Line \d+ \| Dialogue (\d+) \| \[.+\]', line): group 1, or None
EndLogEntry(line) ==
    LET Second(p, n2) ==
            IF /\ Slice(line, p, p + 11) = " | Dialogue "
               /\ n2 >= 1
               /\ Slice(line, p + 12 + n2, p + 15 + n2) = " | ["
               /\ \E k \in (p + 17 + n2)..Len(line) : Ch(line, k) = "]"
            THEN Slice(line, p + 12, p + 11 + n2)
            ELSE None
        First(n1) ==
            IF StartsWith(line, "Line ") /\ n1 >= 1
            THEN Second(6 + n1, RunLen(line, 18 + n1, Digits))
            ELSE None
    IN  First(RunLen(line, 6, Digits))

RECURSIVE ParseRemovalLogFrom(_, _, _, _)
\* the loop of parse_removal_log from line i on, with the is_english_file
\* and all_dialogue_nums it has reached
ParseRemovalLogFrom(lines, i, is_english_file, all_dialogue_nums) ==
    LET Turn(line) ==
            IF StartsWith(line, "### ")
            THEN ParseRemovalLogFrom(lines, i + 1,
                     Contains(Slice(line, 5, Len(line)), "/english_"), all_dialogue_nums)
            ELSE IF is_english_file /\ StartsWith(line, "Line ")
            THEN ParseRemovalLogFrom(lines, i + 1, is_english_file,
                     all_dialogue_nums \cup ({EndLogEntry(line)} \ {None}))
            ELSE ParseRemovalLogFrom(lines, i + 1, is_english_file, all_dialogue_nums)
    IN  IF i > Len(lines) THEN all_dialogue_nums ELSE Turn(Strip(lines[i]))

\* parse_removal_log with is_english_file initialised to True: the entries
\* before the first section header are pooled too
parse_removal_log_from_true(text) == ParseRemovalLogFrom(ReadLines(text), 1, TRUE, {})

\* parse_removal_log(log_path) on a log of content text
parse_removal_log(text) == ParseRemovalLogFrom(ReadLines(text), 1, FALSE, {})

\* the directories directly under actor_lines_path
ActorFolders(f) == {Dirname(p) : p \in {q \in DOMAIN f : Dirname(Dirname(q)) = ActorLines}}

\* find_language_folders(actor_lines_path)
find_language_folders(f) ==
    SortedStrs({d \in ActorFolders(f) : ~StartsWith(Basename(d), "english_")})

\* fnmatch(name, "*tag_match*lines*.txt")
GlobTagMatchLines(name) ==
    LET After(i) ==
            /\ i # 0
            /\ FindFrom(name, "lines", i + 9) # 0
            /\ Len(name) - 3 >= FindFrom(name, "lines", i + 9) + 5
    IN  /\ ~StartsWith(name, ".")
        /\ EndsWith(name, ".txt")
        /\ After(FindFrom(name, "tag_match", 1))

\* find_target_files(language_folder)
find_target_files(f, language_folder) ==
    SortedStrs({p \in DOMAIN f :
                  Dirname(p) = language_folder /\ GlobTagMatchLines(Basename(p))})

\* the turn of the loop without the test of dialogue_nums_to_remove: every
\* numbered line with an end tag is stripped
process_target_line_any_number(line, dialogue_nums_to_remove) ==
    LET Removed(line_stripped, dialogue_num, removed_tag) ==
            [out |-> remove_end_tag(line_stripped) \o "\n", hit |-> removed_tag # None,
             dialogue_num |-> dialogue_num, tag |-> removed_tag]
        Numbered_(line_stripped, dialogue_num) ==
            IF dialogue_num # None /\ has_end_tag(line_stripped)
            THEN Removed(line_stripped, dialogue_num, get_end_tag(line_stripped))
            ELSE [out |-> line, hit |-> FALSE, dialogue_num |-> None, tag |-> None]
        Stripped(line_stripped) ==
            Numbered_(line_stripped, extract_dialogue_number(line_stripped))
    IN  Stripped(RStripNL(line))

\* one turn of the loop of process_target_file over a line
process_target_line(line, dialogue_nums_to_remove) ==
    LET Removed(line_stripped, dialogue_num, removed_tag) ==
            [out |-> remove_end_tag(line_stripped) \o "\n", hit |-> removed_tag # None,
             dialogue_num |-> dialogue_num, tag |-> removed_tag]
        Numbered_(line_stripped, dialogue_num) ==
            IF /\ dialogue_num # None
               /\ dialogue_num \in dialogue_nums_to_remove
               /\ has_end_tag(line_stripped)
            THEN Removed(line_stripped, dialogue_num, get_end_tag(line_stripped))
            ELSE [out |-> line, hit |-> FALSE, dialogue_num |-> None, tag |-> None]
        Stripped(line_stripped) ==
            Numbered_(line_stripped, extract_dialogue_number(line_stripped))
    IN  Stripped(RStripNL(line))

\* process_target_file(filepath, dialogue_nums_to_remove) on a file of
\* content text: the removed list of (file_line_num, dialogue_num,
\* removed_tag) and the content the file has afterwards; a file that cannot
\* be read is reported and left as it is (except Exception)
process_target_file(text, dialogue_nums_to_remove) ==
    LET Removed(res) == FileResult(text, res, RemovedAt(res, Hits(res)))
        Lines(lines) ==
            Removed(List([i \in 1..Len(lines) |->
                       process_target_line(lines[i], dialogue_nums_to_remove)]))
    IN  IF ~Decodable(text) THEN [removed |-> <<>>, text |-> text]
        ELSE Lines(ReadLines(text))

\* an entry of the logs of remove_end_tags.main and remove_translated.main
RET_entry(r) ==
    "  Line " \o ToStr(r.line_num) \o " | Dialogue " \o r.dialogue_num
    \o " | " \o r.tag \o "\n"

\* the DETAILED LOCATIONS part of the logs of remove_end_tags.main and
\* remove_translated.main
DetailedLocations(all_removed) ==
    "## DETAILED LOCATIONS:\n"
    \o "# Format: File path | File line | Dialogue # | Removed tag\n\n"
    \o Sections(all_removed, FilesOf(all_removed),
                [i \in 1..Len(all_removed) |-> RET_entry(all_removed[i])])

\* the "SUMMARY - Tags removed" part of the same logs
TagSummary(all_removed) ==
    LET Tags(tags) == TagCounts(tags, Distinct(tags), "")
    IN  "## SUMMARY - Tags removed:\n"
        \o Tags(TagsOf(all_removed))
        \o "\n" \o Rep("=", 60) \o "\n\n"

\* by_language[lang], by_language being the sequence of (lang, count) in
\* the order the folders were processed
CountOf(by_language, lang) ==
    by_language[CHOOSE k \in 1..Len(by_language) : by_language[k][1] = lang][2]

\* the SUMMARY BY LANGUAGE lines, by descending count
LanguageSummary(by_language) ==
    LET Lines(order) ==
            Concat([k \in 1..Len(order) |->
                      "  " \o order[k] \o ": " \o ToStr(CountOf(by_language, order[k])) \o "\n"])
        Langs(langs) ==
            Lines(SortedByCount(langs, [l \in Range(langs) |-> CountOf(by_language, l)]))
    IN  Langs([k \in 1..Len(by_language) |-> by_language[k][1]])

\* the text remove_end_tags.main writes to output_log
RET_log_text(all_removed, by_language) ==
    "# Tags removed from ALL translated files based on English removal log\n"
    \o "# Source log: " \o EndLog \o "\n"
    \o "# Actor lines directory: " \o ActorLines \o "\n"
    \o "# Total removed: " \o ToStr(Len(all_removed)) \o "\n"
    \o "# Languages processed: " \o ToStr(Len(by_language)) \o "\n"
    \o "#" \o Rep("=", 59) \o "\n\n"
    \o "## SUMMARY BY LANGUAGE:\n"
    \o LanguageSummary(by_language)
    \o "\n"
    \o TagSummary(all_removed)
    \o DetailedLocations(all_removed)

\* by_language of remove_end_tags.main: for every folder that has target
\* files, the number of removals in its files
ByLanguage(folders, all_removed) ==
    [k \in 1..Len(folders) |->
       <<Basename(folders[k]),
         Len(SelectSeq(all_removed, LAMBDA r : Dirname(r.filepath) = folders[k]))>>]

\* main() of remove_end_tags.py with the default log_path and
\* actor_lines_path, run on the file system f
RET_main(f) ==
    LET Stop(outcome) ==
            [fs |-> f, report |-> Summary("remove_end_tags", outcome, {}, <<>>)]
        Written(all_dialogue_nums, language_folders, all_targets, res, all_removed) ==
            [fs |-> WriteFile(Processed(f, all_targets, res), TranslatedLog,
                       RET_log_text(all_removed,
                          ByLanguage(SelectSeq(language_folders,
                                        LAMBDA d : find_target_files(f, d) # <<>>),
                                     all_removed))),
             report |-> Summary("remove_end_tags", "done", all_dialogue_nums, all_removed)]
        Results(all_dialogue_nums, language_folders, all_targets, res) ==
            Written(all_dialogue_nums, language_folders, all_targets, res,
                    AllRemoved(all_targets, res))
        Targets(all_dialogue_nums, language_folders, all_targets) ==
            Results(all_dialogue_nums, language_folders, all_targets,
                    List([i \in 1..Len(all_targets) |->
                       process_target_file(f[all_targets[i]], all_dialogue_nums)]))
        Folders(all_dialogue_nums, language_folders) ==
            IF language_folders = <<>> THEN Stop("no language folders found")
            ELSE Targets(all_dialogue_nums, language_folders,
                         Flatten([i \in 1..Len(language_folders) |->
                                    find_target_files(f, language_folders[i])]))
    IN  IF ~Exists(f, EndLog) THEN Stop("log file not found")
        ELSE IF ~DirExists(f, ActorLines) THEN Stop("actor lines directory not found")
        ELSE Folders(parse_removal_log(f[EndLog]), find_language_folders(f))

RunRemoveEndTags ==
    \E r \in {RET_main(fs)} : fs' = r.fs /\ report' = r.report

(***************************************************************************)
(* remove_translated.py: end-tag propagation into a list of target files   *)
(***************************************************************************)

RECURSIVE RT_ParseRemovalLogFrom(_, _, _, _)
\* the loop of parse_removal_log of remove_translated.py from line i on
RT_ParseRemovalLogFrom(lines, i, current_file, all_dialogue_nums) ==
    LET Turn(line) ==
            IF StartsWith(line, "### ")
            THEN RT_ParseRemovalLogFrom(lines, i + 1, Slice(line, 5, Len(line)),
                                        all_dialogue_nums)
            ELSE IF current_file # None /\ StartsWith(line, "Line ")
            THEN RT_ParseRemovalLogFrom(lines, i + 1, current_file,
                                        all_dialogue_nums \cup ({EndLogEntry(line)} \ {None}))
            ELSE RT_ParseRemovalLogFrom(lines, i + 1, current_file, all_dialogue_nums)
    IN  IF i > Len(lines) THEN all_dialogue_nums ELSE Turn(Strip(lines[i]))

\* parse_removal_log(log_path) of remove_translated.py: all_dialogue_nums
RT_parse_removal_log(text) == RT_ParseRemovalLogFrom(ReadLines(text), 1, None, {})

\* target_files of remove_translated.main
RT_target_files ==
    << ActorLines \o "/hindi_male/new_order_tag_match_hi_m_lines_annotated.txt",
       ActorLines \o "/hindi_male/new_order_tag_match_hi_m_lines_numbered.txt",
       ActorLines \o "/hindi_male/new_order_tag_match_hi_m_lines.txt" >>

\* one turn of the loop of process_target_file of remove_translated.py
RT_process_target_line(line, dialogue_nums_to_remove) ==
    LET Removed(line_stripped, dialogue_num, tag_match) ==
            [out |-> EndTagSub(line_stripped) \o "\n", hit |-> TRUE,
             dialogue_num |-> dialogue_num,
             tag |-> Slice(line_stripped, tag_match[1], tag_match[2])]
        Tagged(line_stripped, dialogue_num, tag_match) ==
            IF tag_match[1] # 0
            THEN Removed(line_stripped, dialogue_num, tag_match)
            ELSE [out |-> line, hit |-> FALSE, dialogue_num |-> None, tag |-> None]
        Numbered_(line_stripped, dialogue_num) ==
            IF dialogue_num # None /\ dialogue_num \in dialogue_nums_to_remove
            THEN Tagged(line_stripped, dialogue_num, EndTagSearch(line_stripped))
            ELSE [out |-> line, hit |-> FALSE, dialogue_num |-> None, tag |-> None]
        Stripped(line_stripped) ==
            Numbered_(line_stripped, extract_dialogue_number(line_stripped))
    IN  Stripped(RStripNL(line))

\* process_target_file(filepath, dialogue_nums_to_remove) of
\* remove_translated.py
RT_process_target_file(text, dialogue_nums_to_remove) ==
    LET Removed(res) == FileResult(text, res, RemovedAt(res, Hits(res)))
        Lines(lines) ==
            Removed(List([i \in 1..Len(lines) |->
                       RT_process_target_line(lines[i], dialogue_nums_to_remove)]))
    IN  IF ~Decodable(text) THEN [removed |-> <<>>, text |-> text]
        ELSE Lines(ReadLines(text))

\* the text remove_translated.main writes to output_log
RT_log_text(all_removed) ==
    "# Tags removed from translated files based on English removal log\n"
    \o "# Source log: " \o EndLog \o "\n"
    \o "# Total removed: " \o ToStr(Len(all_removed)) \o "\n"
    \o "#" \o Rep("=", 59) \o "\n\n"
    \o TagSummary(all_removed)
    \o DetailedLocations(all_removed)

\* main() of remove_translated.py with the default log_path and
\* target_files, run on the file system f
RT_main(f) ==
    LET Written(all_dialogue_nums, found, res, all_removed) ==
            [fs |-> WriteFile(Processed(f, found, res), TranslatedLog,
                              RT_log_text(all_removed)),
             report |-> Summary("remove_translated", "done", all_dialogue_nums, all_removed)]
        Results(all_dialogue_nums, found, res) ==
            Written(all_dialogue_nums, found, res, AllRemoved(found, res))
        Targets(all_dialogue_nums, found) ==
            Results(all_dialogue_nums, found,
                    List([i \in 1..Len(found) |->
                       RT_process_target_file(f[found[i]], all_dialogue_nums)]))
    IN  IF ~Exists(f, EndLog)
        THEN [fs |-> f,
              report |-> Summary("remove_translated", "log file not found", {}, <<>>)]
        ELSE Targets(RT_parse_removal_log(f[EndLog]),
                     SelectSeq(RT_target_files, LAMBDA p : Exists(f, p)))

RunRemoveTranslated ==
    \E r \in {RT_main(fs)} : fs' = r.fs /\ report' = r.report

(***************************************************************************)
(* The end-tag pipeline: the corpora the three end-tag scripts are run on  *)
(***************************************************************************)

\* The dialogue numbers of the corpus are 1..MaxDialogue
MaxDialogue == 2

Dlg == {ToStr(n) : n \in 1..MaxDialogue}

EN1N == ActorLines \o "/english_1/new_order_en_1_lines_numbered.txt"

EN2N == ActorLines \o "/english_2/new_order_en_2_lines_numbered.txt"

HI_N == ActorLines \o "/hindi_male/new_order_hi_m_lines_numbered.txt"

HI_TM == ActorLines \o "/hindi_male/new_order_tag_match_hi_m_lines_numbered.txt"

HI_ANN == ActorLines \o "/hindi_male/new_order_tag_match_hi_m_lines_annotated.txt"

FR_TM == ActorLines \o "/french_female/new_order_tag_match_fr_f_lines.txt"

\* every dialogue has the line of shape k
All(k) == [n \in 1..MaxDialogue |-> k]

\* the lines a canonical file holds for a dialogue: no end tag, an end tag
\* of the allow-list, an end tag that is not on it
CanonicalLine(d, k) ==
    CASE k = 1 -> d \o ". Hello\n"
      [] k = 2 -> d \o ". Hello [sighs]\n"
      [] k = 3 -> d \o ". Hello [gasps]\n"

\* a canonical file of one line per dialogue, of the shapes c
CanonicalFile(c) == Concat([n \in 1..MaxDialogue |-> CanonicalLine(ToStr(n), c[n])])

\* the lines a translated tag_match file holds for a dialogue: no end tag,
\* one, two in a row, and a continuation line without a number
VariantLine(d, k) ==
    CASE k = 1 -> d \o ". Namaste\n"
      [] k = 2 -> d \o ". Namaste [aah]\n"
      [] k = 3 -> d \o ". Namaste [aah] [hansi]\n"
      [] k = 4 -> "Namaste [aah]\n"

\* a tag_match file of one line per dialogue, of the shapes c
VariantFile(c) == Concat([n \in 1..MaxDialogue |-> VariantLine(ToStr(n), c[n])])

\* a removal log in the format remove_end_tags reads: entries before any
\* section, a section of english_1 with dialogue b and an entry that is not
\* well-formed, a section of a hindi file, a section of english_2 with
\* dialogue d
PipeLog(b, d) ==
    "# Removed tags at end of lines (NOT in allowed list)\n"
    \o Concat([n \in 1..MaxDialogue |->
                 "  Line " \o ToStr(n) \o " | Dialogue " \o ToStr(n) \o " | [gasps]\n"])
    \o "### " \o EN1N \o "\n"
    \o "  Line 1 | Dialogue " \o b \o " | [gasps]\n"
    \o "  Line 2 | Dialogue | [gasps]\n\n"
    \o "### " \o HI_N \o "\n"
    \o Concat([n \in 1..MaxDialogue |->
                 "  Line " \o ToStr(n) \o " | Dialogue " \o ToStr(n) \o " | [gasps]\n"])
    \o "\n### " \o EN2N \o "\n"
    \o "  Line 1 | Dialogue " \o d \o " | [gasps]\n\n"

\* the corpus without a log: the english files hold en1 and en2, the hindi
\* tag_match file hi; the french file has lost the last dialogue
Corpus(en1, en2, hi) ==
    (EN1N :> en1) @@ (EN2N :> en2)
    @@ (HI_N :> CanonicalFile(All(3)))
    @@ (HI_TM :> hi)
    @@ (HI_ANN :> VariantFile(All(2)))
    @@ (FR_TM :> Concat([n \in 1..(MaxDialogue - 1) |-> VariantLine(ToStr(n), 2)]))

NoReport == Summary("none", "none", {}, <<>>)

\* the corpus after the canonical run, with a log of it
Propagating(b, d, c) ==
    Corpus(CanonicalFile(All(1)),
           CanonicalFile(All(1)),
           VariantFile(c))
    @@ (EndLog :> PipeLog(b, d))

\* Either the canonical files still hold their tags and no log is written
\* yet, or the canonical files are clean and a log lists what was removed:
\* any two dialogues of the two english files with a hindi file of two end
\* tags a line, any hindi file with the first dialogue removed, or a hindi
\* file whose lines end in "\r\n".
InitEnd ==
    /\ report = NoReport
    /\ \/ \E c \in [1..MaxDialogue -> 1..3] :
            fs = Corpus(CanonicalFile(c),
                        CanonicalFile(All(3)),
                        VariantFile(All(2)))
       \/ \E b \in Dlg, d \in Dlg :
            fs = Propagating(b, d, All(3))
       \/ \E c \in [1..MaxDialogue -> 1..4] :
            fs = Propagating("1", "1", c)
       \/ \E b \in Dlg :
            fs = [Propagating(b, b, All(2))
                    EXCEPT ![HI_TM] = Replace(@, "\n", "\r\n")]

NextEnd == RunRemoveUnlisted \/ RunRemoveEndTags \/ RunRemoveTranslated

SpecEnd == InitEnd /\ [][NextEnd]_vars

(***************************************************************************)
(* remove_start_tags.py: the silent start-tag remover                      *)
(***************************************************************************)

\* Tags that produce no audio, in the order the script tries them
SILENT_TAGS ==
    << "nodding", "shaking head", "leaning forward", "stiffening",
       "shifting uncomfortably", "wiping eyes", "shakily standing",
       "adjusting equipment quietly", "stepping back quickly", "lowering phone slowly",
       "pressing play", "staring at the half-built set", "withdrawing", "grinning",
       "recognition dawning", "pause", "long pause", "short pause", "thoughtful pause" >>

\* log_path of remove_start_tags.py and of remove_lang_start_tags.py
StartLog == ProjectDir \o "/start_removed.txt"

\* re.match of r'\[tag\]\s*' at position j of line: the position after the
\* match, 0 when there is none
BracketAt(line, j, tag) ==
    IF Slice(line, j, j + Len(tag) + 1) = "[" \o tag \o "]"
    THEN j + Len(tag) + 2 + RunLen(line, j + Len(tag) + 2, Whitespace)
    ELSE 0

\* what a pattern of remove_silent_tags_at_start gives on a line
Miss(line) == [hit |-> FALSE, line |-> line, dialogue_num |-> None]

\* pattern1 replaced by r'\1.', without the space after the "."
AfterNumber_without_space(line, tag) ==
    LET Tag(k, e) ==
            IF e # 0
            THEN [hit |-> TRUE, line |-> Slice(line, 1, k) \o "." \o Slice(line, e, Len(line)),
                  dialogue_num |-> Slice(line, 1, k)]
            ELSE Miss(line)
        Number(k) ==
            IF k >= 1 /\ Ch(line, k + 1) = "."
            THEN Tag(k, BracketAt(line, k + 2 + RunLen(line, k + 2, Whitespace), tag))
            ELSE Miss(line)
    IN  Number(RunLen(line, 1, Digits))

\* pattern1, r'^(\d+)\.\s*\[tag\]\s*' replaced by r'\1. '
AfterNumber(line, tag) ==
    LET Tag(k, e) ==
            IF e # 0
            THEN [hit |-> TRUE, line |-> Slice(line, 1, k) \o ". " \o Slice(line, e, Len(line)),
                  dialogue_num |-> Slice(line, 1, k)]
            ELSE Miss(line)
        Number(k) ==
            IF k >= 1 /\ Ch(line, k + 1) = "."
            THEN Tag(k, BracketAt(line, k + 2 + RunLen(line, k + 2, Whitespace), tag))
            ELSE Miss(line)
    IN  Number(RunLen(line, 1, Digits))

\* pattern2, r'^\[tag\]\s*' replaced by ''
AtLineStart(line, tag) ==
    LET Tag(e) ==
            IF e # 0
            THEN [hit |-> TRUE, line |-> Slice(line, e, Len(line)), dialogue_num |-> None]
            ELSE Miss(line)
    IN  Tag(BracketAt(line, 1, tag))

\* pattern3, r'^([^:\n]+:\s*)\[tag\]\s*' replaced by r'\1': the label runs
\* to the first ":" of the line
AfterLabel(line, tag) ==
    LET Tag(j, e) ==
            IF e # 0
            THEN [hit |-> TRUE, line |-> Slice(line, 1, j - 1) \o Slice(line, e, Len(line)),
                  dialogue_num |-> None]
            ELSE Miss(line)
        Bracket(j) == Tag(j, BracketAt(line, j, tag))
        Label(c) ==
            IF c >= 2 THEN Bracket(c + 1 + RunLen(line, c + 1, Whitespace)) ELSE Miss(line)
    IN  Label(FindFrom(line, ":", 1))

\* one turn of the loop over SILENT_TAGS: the first pattern that matches
TagTurn(line, tag) ==
    LET Third(m) == IF m.hit THEN m ELSE AfterLabel(line, tag)
        Second(m) == IF m.hit THEN m ELSE Third(AtLineStart(line, tag))
    IN  Second(AfterNumber(line, tag))

RECURSIVE TagsFrom(_, _, _)
\* the loop over SILENT_TAGS from tag k on: the line it leaves and the
\* (dialogue_num, tag) it has logged
TagsFrom(line, k, entries) ==
    LET Turn(m) ==
            IF m.hit
            THEN TagsFrom(m.line, k + 1,
                          Append(entries, [dialogue_num |-> m.dialogue_num,
                                           tag |-> SILENT_TAGS[k]]))
            ELSE TagsFrom(line, k + 1, entries)
    IN  IF k > Len(SILENT_TAGS) THEN [line |-> line, entries |-> entries]
        ELSE Turn(TagTurn(line, SILENT_TAGS[k]))

\* remove_silent_tags_at_start(text, filepath): the cleaned text and what
\* it appends to removed_log
remove_silent_tags_at_start(text, filepath) ==
    LET Cleaned(lines, res) ==
            [text |-> JoinNL([i \in 1..Len(res) |-> res[i].line]),
             removed |-> Flatten([i \in 1..Len(res) |->
                            [k \in 1..Len(res[i].entries) |->
                               [dialogue_num |-> res[i].entries[k].dialogue_num,
                                file_line |-> i,
                                filepath |-> filepath,
                                tag |-> res[i].entries[k].tag,
                                original |-> Strip(lines[i])]]])]
        Lines(lines) == Cleaned(lines, List([i \in 1..Len(lines) |-> TagsFrom(lines[i], 1, <<>>)]))
    IN  Lines(SplitNL(text))

\* process_file(filepath) on the file system f: the text it writes when
\* the cleaned text differs from the content it read, and what the call
\* appends to removed_log.  The read is in no try block: on a file that
\* cannot be read the call raises.
process_file(f, filepath) ==
    LET Cleaned(original, r) ==
            [text |-> r.text, removed |-> r.removed, modified |-> original # r.text,
             raised |-> FALSE]
        Content(content) == Cleaned(content, remove_silent_tags_at_start(content, filepath))
    IN  IF ~Decodable(f[filepath])
        THEN [text |-> f[filepath], removed |-> <<>>, modified |-> FALSE, raised |-> TRUE]
        ELSE Content(Universal(f[filepath]))

RECURSIVE Orders(_)
\* all the sequences that list every item of the set S once
Orders(S) ==
    IF S = {} THEN {<<>>}
    ELSE UNION {{<<x>> \o q : q \in Orders(S \ {x})} : x \in S}

\* the directories of the file system f
Directories(f) ==
    UNION {{Slice(p, 1, k - 1) : k \in {j \in 2..Len(p) : Ch(p, j) = "/"}} : p \in DOMAIN f}

RECURSIVE Walk(_, _, _)
RECURSIVE WalkAll(_, _, _, _)
\* the orders in which os.walk(top) can yield the .txt files under top:
\* the files of top in the order of its listing, then the walk of each
\* directory of top, these in the order of the listing too
Walk(f, dirs, top) ==
    {a \o b : a \in Orders({p \in DOMAIN f : Dirname(p) = top /\ EndsWith(p, ".txt")}),
              b \in UNION {WalkAll(f, dirs, q, 1) : q \in Orders({d \in dirs : Dirname(d) = top})}}

\* the walks of the directories q[i], q[i + 1], ... one after the other
WalkAll(f, dirs, q, i) ==
    IF i > Len(q) THEN {<<>>}
    ELSE {a \o b : a \in Walk(f, dirs, q[i]), b \in WalkAll(f, dirs, q, i + 1)}

\* the orders in which os.walk(base_dir) can yield the .txt files
WalkOrders(f) == Walk(f, Directories(f), ActorLines)

\* repr(tags) of a list of str
ListRepr(tags) ==
    "[" \o Concat([k \in 1..Len(tags) |->
                     (IF k = 1 THEN "'" ELSE ", '") \o tags[k] \o "'"]) \o "]"

\* an entry of the log of remove_start_tags.py
RST_entry(entry) ==
    (IF entry.dialogue_num # None
     THEN "Dialogue " \o entry.dialogue_num \o " (file line " \o ToStr(entry.file_line)
          \o ") in " \o entry.filepath \o "\n"
     ELSE "File line " \o ToStr(entry.file_line) \o " in " \o entry.filepath \o "\n")
    \o "  Tag: [" \o entry.tag \o "]\n"
    \o "  Original: " \o entry.original \o "\n\n"

\* the text remove_start_tags.py writes to log_path
RST_log_text(removed_log) ==
    "# Removed " \o ToStr(Len(removed_log)) \o " silent tags from start of lines\n"
    \o "# Tags removed: " \o ListRepr(SILENT_TAGS) \o "\n\n"
    \o Concat([k \in 1..Len(removed_log) |-> RST_entry(removed_log[k])])

\* remove_start_tags.py run on the file system f when os.walk yields the
\* files in the order walk: process_file on each, then the log.  When a
\* call of process_file raises, the script ends there: the files before it
\* in the walk are written, the others and the log are not.
RST_main(f, walk) ==
    LET Written(res, removed_log) ==
            [fs |-> WriteFile([p \in DOMAIN f |->
                                  IF p \in Range(walk) /\ res[IndexOf(walk, p)].modified
                                  THEN res[IndexOf(walk, p)].text ELSE f[p]],
                              StartLog, RST_log_text(removed_log)),
             report |-> Summary("remove_start_tags", "done", {}, removed_log)]
        Raised(res, n) ==
            [fs |-> [p \in DOMAIN f |->
                       IF p \in Range(SubSeq(walk, 1, n - 1)) /\ res[IndexOf(walk, p)].modified
                       THEN res[IndexOf(walk, p)].text ELSE f[p]],
             report |-> Summary("remove_start_tags", "UnicodeDecodeError", {},
                                Flatten([i \in 1..(n - 1) |-> res[i].removed]))]
        Results(res, raising) ==
            IF raising # {} THEN Raised(res, Min(raising))
            ELSE Written(res, Flatten([i \in 1..Len(res) |-> res[i].removed]))
        Calls(res) == Results(res, {i \in 1..Len(res) : res[i].raised})
    IN  Calls(List([i \in 1..Len(walk) |-> process_file(f, walk[i])]))

RunRemoveStartTags ==
    \E walk \in WalkOrders(fs) :
       \E r \in {RST_main(fs, walk)} : fs' = r.fs /\ report' = r.report

(***************************************************************************)
(* remove_lang_start_tags.py: start-tag propagation into tag_match files   *)
(***************************************************************************)

\* output_log_path of remove_lang_start_tags.py
TagMatchLog == ProjectDir \o "/tag_match_removed.txt"

\* a match of r'Dialogue (\d+) \(file line \d+\) in ([^\n]+)' at position k
\* of a line: <<group 1, group 2 stripped>>, or <<>>
DialogueEntryAt(line, k) ==
    LET Second(n1, n2) ==
            IF /\ n2 >= 1
               /\ Slice(line, k + 21 + n1 + n2, k + 25 + n1 + n2) = ") in "
               /\ k + 26 + n1 + n2 <= Len(line)
            THEN <<Slice(line, k + 9, k + 8 + n1),
                   Strip(Slice(line, k + 26 + n1 + n2, Len(line)))>>
            ELSE <<>>
        First(n1) ==
            IF /\ Slice(line, k, k + 8) = "Dialogue "
               /\ n1 >= 1
               /\ Slice(line, k + 9 + n1, k + 20 + n1) = " (file line "
            THEN Second(n1, RunLen(line, k + 21 + n1, Digits))
            ELSE <<>>
    IN  First(RunLen(line, k + 9, Digits))

\* the match re.finditer finds in a line: the leftmost one
DialogueEntry(line) ==
    LET Leftmost(at) == IF at = {} THEN <<>> ELSE DialogueEntryAt(line, Min(at))
    IN  Leftmost({k \in 1..Len(line) : DialogueEntryAt(line, k) # <<>>})

\* the (dialogue_num, filepath) of the matches of re.finditer over the
\* content of the log, in their order
LogPairs(content) ==
    LET Lines(lines) ==
            SelectSeq([i \in 1..Len(lines) |-> DialogueEntry(lines[i])], LAMBDA m : m # <<>>)
    IN  Lines(SplitNL(content))

\* the keys of removals, in the order of the log
LoggedSources(f) ==
    LET Paths(pairs) == Distinct([i \in 1..Len(pairs) |-> pairs[i][2]])
    IN  Paths(LogPairs(Universal(f[StartLog])))

\* removals[filepath]: the dialogue numbers logged under filepath
NumsOf(pairs, filepath) ==
    {pairs[i][1] : i \in {j \in 1..Len(pairs) : pairs[j][2] = filepath}}

\* the files get_tag_match_path(source_path) can return: the entries of
\* os.listdir(directory) that pass its tests, of which it returns the one
\* os.listdir yields first; none when it returns None
TagMatchCandidates(f, source_path) ==
    LET Matching(directory, is_numbered, base, suffix) ==
            {p \in DOMAIN f :
               /\ Dirname(p) = directory
               /\ ~Contains(Basename(p), "_annotated.txt")
               /\ Contains(Basename(p), "_tag_match_")
               /\ EndsWith(Basename(p), suffix)
               /\ (~is_numbered => ~EndsWith(Basename(p), "_lines_numbered.txt"))
               /\ Replace(DropLast(Basename(p), Len(suffix)), "_tag_match", "") = base}
        Named(directory, filename, is_numbered) ==
            IF is_numbered
            THEN Matching(directory, TRUE, DropLast(filename, Len("_lines_numbered.txt")),
                          "_lines_numbered.txt")
            ELSE Matching(directory, FALSE, DropLast(filename, Len("_lines.txt")), "_lines.txt")
        Split(directory, filename) ==
            IF \/ Contains(filename, "_tag_match_")
               \/ Contains(source_path, "/english_")
               \/ ~DirExists(f, directory)
            THEN {}
            ELSE Named(directory, filename, EndsWith(filename, "_lines_numbered.txt"))
    IN  Split(Dirname(source_path), Basename(source_path))

\* re.match(r'^(\d+)\.\s*\[([^\]]+)\]\s*', line): <<the end of group 1, the
\* positions of "[" and "]", the position after the match>>, or <<>>
StartTagMatch(line) ==
    LET Close(k, j, c) ==
            IF c >= j + 2 THEN <<k, j, c, c + 1 + RunLen(line, c + 1, Whitespace)>> ELSE <<>>
        Open(k, j) ==
            IF Ch(line, j) = "[" THEN Close(k, j, FindFrom(line, "]", j + 1)) ELSE <<>>
        Number(k) ==
            IF k >= 1 /\ Ch(line, k + 1) = "."
            THEN Open(k, k + 2 + RunLen(line, k + 2, Whitespace))
            ELSE <<>>
    IN  Number(RunLen(line, 1, Digits))

\* remove_start_tag_from_line(line)
remove_start_tag_from_line(line) ==
    LET Sub(m) ==
            IF m = <<>> THEN line
            ELSE Slice(line, 1, m[1]) \o ". " \o Slice(line, m[4], Len(line))
    IN  Sub(StartTagMatch(line))

\* one turn of the loop over the lines of a tag_match file
RLS_process_line(line, target_nums) ==
    LET Changed(k, m, new_line) ==
            IF new_line # line
            THEN [out |-> new_line, hit |-> TRUE, dialogue_num |-> Slice(line, 1, k),
                  tag |-> IF m = <<>> THEN "unknown" ELSE Slice(line, m[2] + 1, m[3] - 1),
                  original |-> Strip(line), new |-> Strip(new_line)]
            ELSE [out |-> line, hit |-> FALSE]
        Number(k) ==
            IF k >= 1 /\ Ch(line, k + 1) = "." /\ Slice(line, 1, k) \in target_nums
            THEN Changed(k, StartTagMatch(line), remove_start_tag_from_line(line))
            ELSE [out |-> line, hit |-> FALSE]
    IN  Number(RunLen(line, 1, Digits))

\* the body of the loop for a source file that resolved to the file of
\* content text: the lines it would write and what it appends to removal_log
RLS_process_file(text, tag_match_path, target_nums) ==
    LET Entries(res, hits) ==
            [k \in 1..Len(hits) |->
               [dialogue_num |-> res[hits[k]].dialogue_num, filepath |-> tag_match_path,
                tag |-> res[hits[k]].tag, original |-> res[hits[k]].original,
                new |-> res[hits[k]].new]]
        Result(res) ==
            [text |-> Concat([i \in 1..Len(res) |-> res[i].out]),
             removed |-> Entries(res, Hits(res))]
        Lines(lines) ==
            Result(List([i \in 1..Len(lines) |-> RLS_process_line(lines[i], target_nums)]))
    IN  Lines(ReadLines(text))

\* an entry of the log of remove_lang_start_tags.py
RLS_entry(entry) ==
    "Dialogue " \o entry.dialogue_num \o " in " \o entry.filepath \o "\n"
    \o "  Tag: [" \o entry.tag \o "]\n"
    \o "  Original: " \o entry.original \o "\n\n"

\* the text remove_lang_start_tags.py writes to output_log_path
RLS_log_text(removal_log) ==
    "# Removed " \o ToStr(Len(removal_log)) \o " tags from tag_match files\n"
    \o "# Based on removals logged in: " \o StartLog \o "\n\n"
    \o Concat([k \in 1..Len(removal_log) |-> RLS_entry(removal_log[k])])

\* the loop without line 123: a source file that resolves to no tag_match
\* file is passed over and not listed
not_found_unlisted(acc, source_path) == acc

\* not_found.append(source_path) on the counters acc
not_found_append(acc, source_path) == [acc EXCEPT !.not_found = Append(@, source_path)]

RECURSIVE RLS_loop(_, _, _, _, _, _, _)
\* the loop over removals.items() from the source file sources[i] on;
\* listed[source_path] is what get_tag_match_path returns for it, f the
\* file system and acc the counters the loop has reached.  The read of a
\* tag_match file is in no try block: when it raises, the script ends.
RLS_loop(f, pairs, sources, i, listed, dry_run, acc) ==
    LET Done(tag_match_path, r) ==
            RLS_loop(IF r.removed # <<>> /\ ~dry_run
                     THEN WriteFile(f, tag_match_path, r.text) ELSE f,
                     pairs, sources, i + 1, listed, dry_run,
                     [acc EXCEPT !.removal_log = @ \o r.removed,
                                 !.modified_files = @ + (IF r.removed # <<>> THEN 1 ELSE 0),
                                 !.written = @ \cup (IF r.removed # <<>> /\ ~dry_run
                                                     THEN {tag_match_path} ELSE {}),
                                 !.resolved = @ \cup {<<sources[i], tag_match_path>>}])
        Source(source_path, tag_match_path) ==
            IF Contains(source_path, "/english_")
            THEN RLS_loop(f, pairs, sources, i + 1, listed, dry_run,
                          [acc EXCEPT !.skipped_english = @ + 1])
            ELSE IF Contains(source_path, "_tag_match_")
            THEN RLS_loop(f, pairs, sources, i + 1, listed, dry_run,
                          [acc EXCEPT !.skipped_tag_match = @ + 1])
            ELSE IF tag_match_path = None
            THEN RLS_loop(f, pairs, sources, i + 1, listed, dry_run,
                          not_found_append(acc, source_path))
            ELSE IF ~Decodable(f[tag_match_path])
            THEN [fs |-> f, acc |-> [acc EXCEPT !.raised = TRUE]]
            ELSE Done(tag_match_path,
                      RLS_process_file(f[tag_match_path], tag_match_path,
                                       NumsOf(pairs, source_path)))
    IN  IF i > Len(sources) THEN [fs |-> f, acc |-> acc]
        ELSE Source(sources[i], listed[sources[i]])

\* what get_tag_match_path can return for the source files: one of its
\* candidates each, None where there is none
Listings(f, sources) ==
    [Range(sources) -> {None} \cup UNION {TagMatchCandidates(f, p) : p \in Range(sources)}]

\* remove_lang_start_tags.py run on the file system f with the listings
\* listed, with or without --dry-run
RLS_main(f, listed, dry_run) ==
    LET Report(pairs, acc) ==
            [tool |-> "remove_lang_start_tags",
             outcome |-> IF acc.raised THEN "UnicodeDecodeError" ELSE "done",
             dry_run |-> dry_run,
             pending |-> Range(pairs), removed |-> acc.removal_log,
             resolved |-> acc.resolved, modified_files |-> acc.modified_files,
             written |-> acc.written,
             not_found |-> acc.not_found, skipped_english |-> acc.skipped_english,
             skipped_tag_match |-> acc.skipped_tag_match]
        Logged(pairs, r) ==
            [fs |-> IF ~dry_run /\ r.acc.removal_log # <<>> /\ ~r.acc.raised
                    THEN WriteFile(r.fs, TagMatchLog, RLS_log_text(r.acc.removal_log))
                    ELSE r.fs,
             report |-> Report(pairs, r.acc)]
        Parsed(pairs, sources) ==
            Logged(pairs,
                   RLS_loop(f, pairs, sources, 1, listed, dry_run,
                            [removal_log |-> <<>>, modified_files |-> 0, written |-> {},
                             resolved |-> {}, not_found |-> <<>>, skipped_english |-> 0,
                             skipped_tag_match |-> 0, raised |-> FALSE]))
        Pairs(pairs) == Parsed(pairs, LoggedSources(f))
    IN  Pairs(LogPairs(Universal(f[StartLog])))

\* The script opens log_path without a check: without the log it ends in
\* a FileNotFoundError before it has changed anything.
RunRemoveLangStartTags ==
    IF ~Exists(fs, StartLog)
    THEN /\ fs' = fs
         /\ report' = Summary("remove_lang_start_tags", "FileNotFoundError", {}, <<>>)
    ELSE \E listed \in Listings(fs, LoggedSources(fs)) :
            /\ \A p \in DOMAIN listed :
                  IF TagMatchCandidates(fs, p) = {} THEN listed[p] = None
                  ELSE listed[p] \in TagMatchCandidates(fs, p)
            /\ \E r \in {RLS_main(fs, listed, FALSE)} : fs' = r.fs /\ report' = r.report

\* the same run with --dry-run
RunRemoveLangStartTagsDryRun ==
    IF ~Exists(fs, StartLog)
    THEN /\ fs' = fs
         /\ report' = Summary("remove_lang_start_tags", "FileNotFoundError", {}, <<>>)
    ELSE \E listed \in Listings(fs, LoggedSources(fs)) :
            /\ \A p \in DOMAIN listed :
                  IF TagMatchCandidates(fs, p) = {} THEN listed[p] = None
                  ELSE listed[p] \in TagMatchCandidates(fs, p)
            /\ \E r \in {RLS_main(fs, listed, TRUE)} : fs' = r.fs /\ report' = r.report

(***************************************************************************)
(* The start-tag pipeline: the corpora the start-tag scripts are run on    *)
(***************************************************************************)

EN_L == ActorLines \o "/english_1/new_order_en_1_lines.txt"

HI_L == ActorLines \o "/hindi_male/new_order_hi_m_lines.txt"

HI_TML == ActorLines \o "/hindi_male/new_order_tag_match_hi_m_lines.txt"

HI_NOTES == ActorLines \o "/hindi_male/new_order_hi_m_notes.txt"

\* the lines a source file holds for a dialogue: no start tag, a silent
\* tag after the number, at the very start of a line without a number,
\* after a speaker label, and two silent tags after the number
SourceLine(d, k) ==
    CASE k = 1 -> d \o ". Namaste\n"
      [] k = 2 -> d \o ". [pause] Namaste\n"
      [] k = 3 -> "[pause] Namaste\n"
      [] k = 4 -> d \o ". Ravi: [pause] Namaste\n"
      [] k = 5 -> d \o ". [nodding] [pause] Namaste\n"

\* a source file of one line per dialogue, of the shapes c
SourceFile(c) == Concat([n \in 1..MaxDialogue |-> SourceLine(ToStr(n), c[n])])

\* the lines a tag_match file holds for a dialogue: no start tag, one, and
\* two in a row
StartVariantLine(d, k) ==
    CASE k = 1 -> d \o ". Namaste\n"
      [] k = 2 -> d \o ". [ruk kar] Namaste\n"
      [] k = 3 -> d \o ". [ruk kar] [sir hila kar] Namaste\n"

\* a tag_match file of one line per dialogue, of the shapes c
StartVariantFile(c) == Concat([n \in 1..MaxDialogue |-> StartVariantLine(ToStr(n), c[n])])

\* the corpus of the start-tag scripts: an english file, a hindi source
\* file of content hi and its tag_match file of content tm
StartCorpus(hi, tm) ==
    (EN_L :> SourceFile(All(2)))
    @@ (HI_L :> hi) @@ (HI_TML :> tm)

\* the log remove_start_tags.py leaves when it removed [pause] after the
\* number of the dialogues of D in the hindi source file
StartLogOf(D) ==
    RST_log_text(SelectSeq([n \in 1..MaxDialogue |->
                              [dialogue_num |-> ToStr(n), file_line |-> n, filepath |-> HI_L,
                               tag |-> "pause", original |-> Strip(SourceLine(ToStr(n), 2))]],
                           LAMBDA e : e.dialogue_num \in D))

\* Either no log is written yet and the hindi source file holds any of the
\* source lines, with or without a notes file beside it; or the source
\* file is clean, the log lists the dialogues of D and the tag_match file
\* holds any of the variant lines.
InitStart ==
    /\ report = NoReport
    /\ \/ \E c \in [1..MaxDialogue -> 1..5] :
            fs = StartCorpus(SourceFile(c),
                             StartVariantFile(All(2)))
       \/ \E c \in [1..MaxDialogue -> 1..2], d \in Dlg :
            fs = StartCorpus(SourceFile(c),
                             StartVariantFile(All(2)))
                 @@ (HI_NOTES :> SourceLine(d, 2))
       \/ \E c \in [1..MaxDialogue -> 1..3], D \in SUBSET Dlg :
            fs = StartCorpus(SourceFile(All(1)),
                             StartVariantFile(c))
                 @@ (StartLog :> StartLogOf(D))

NextStart == RunRemoveStartTags \/ RunRemoveLangStartTags \/ RunRemoveLangStartTagsDryRun

SpecStart == InitStart /\ [][NextStart]_vars

(***************************************************************************)
(* remove_blank_lines.py: blank-line removal and continuation merging      *)
(***************************************************************************)

\* is_numbered_line(line)
is_numbered_line(line) ==
    LET Number(t, k) == k >= 1 /\ Ch(t, k + 1) = "." /\ Ch(t, k + 2) \in Whitespace
        Stripped(t) == Number(t, RunLen(t, 1, Digits))
    IN  Stripped(Strip(line))

\* the first pass without its filter: blank lines are stripped and kept
NonBlankLines_unfiltered(lines) == [i \in 1..Len(lines) |-> RStrip(lines[i])]

\* the first pass of clean_and_merge_lines: non_blank_lines
NonBlankLines(lines) ==
    LET Kept(kept) == [i \in 1..Len(kept) |-> RStrip(kept[i])]
    IN  Kept(SelectSeq(lines, LAMBDA line : Strip(line) # ""))

RECURSIVE MergeFrom(_, _, _, _)
\* the second pass from the line i on, with the current_line and the
\* merged_lines it has reached; then the last line
MergeFrom(non_blank_lines, i, current_line, merged_lines) ==
    IF i > Len(non_blank_lines)
    THEN IF current_line # None THEN Append(merged_lines, current_line) ELSE merged_lines
    ELSE IF is_numbered_line(non_blank_lines[i])
    THEN MergeFrom(non_blank_lines, i + 1, non_blank_lines[i],
                   IF current_line # None THEN Append(merged_lines, current_line)
                   ELSE merged_lines)
    ELSE MergeFrom(non_blank_lines, i + 1,
                   IF current_line # None THEN current_line \o " " \o non_blank_lines[i]
                   ELSE non_blank_lines[i],
                   merged_lines)

\* clean_and_merge_lines(input_file, output_file) on an input of content
\* text: the text it writes and the counts it prints
clean_and_merge_lines(text) ==
    LET Merged(lines, non_blank_lines, merged_lines) ==
            [text |-> Concat([i \in 1..Len(merged_lines) |-> merged_lines[i] \o "\n"]),
             original_count |-> Len(lines),
             non_blank |-> Len(non_blank_lines),
             merged |-> Len(merged_lines)]
        NonBlank(lines, non_blank_lines) ==
            Merged(lines, non_blank_lines, MergeFrom(non_blank_lines, 1, None, <<>>))
        Lines(lines) == NonBlank(lines, NonBlankLines(lines))
    IN  Lines(ReadLines(text))

\* what a run of remove_blank_lines.py leaves in report: the files it
\* wrote and the counts it printed for each
MergeReport(outcome, target, counts) ==
    [tool |-> "remove_blank_lines", outcome |-> outcome, target |-> target,
     written |-> DOMAIN counts, counts |-> counts]

\* the counts clean_and_merge_lines prints
Counts(r) ==
    [original_count |-> r.original_count, non_blank |-> r.non_blank, merged |-> r.merged]

\* --file input_file [--output output_file] of remove_blank_lines.py on
\* the file system f; output_file is None without --output
RBL_file(f, input_file, output_file) ==
    LET Cleaned(out, r) ==
            [fs |-> WriteFile(f, out, r.text),
             report |-> MergeReport("done", input_file, (out :> Counts(r)))]
    IN  IF ~Exists(f, input_file)
        THEN [fs |-> f, report |-> MergeReport("file not found", input_file, <<>>)]
        ELSE Cleaned(IF output_file = None THEN input_file ELSE output_file,
                     clean_and_merge_lines(f[input_file]))

\* process_folder(folder_path): every .txt file of the folder in place
process_folder(f, folder_path) ==
    LET Cleaned(txt_files, res) ==
            [fs |-> [p \in DOMAIN f |-> IF p \in txt_files THEN res[p].text ELSE f[p]],
             report |-> MergeReport("done", folder_path,
                                    [p \in txt_files |-> Counts(res[p])])]
        Found(txt_files) ==
            IF txt_files = {}
            THEN [fs |-> f, report |-> MergeReport("no .txt files", folder_path, <<>>)]
            ELSE Cleaned(txt_files, [p \in txt_files |-> clean_and_merge_lines(f[p])])
    IN  IF ~DirExists(f, folder_path)
        THEN [fs |-> f, report |-> MergeReport("not a directory", folder_path, <<>>)]
        ELSE Found({p \in DOMAIN f : Dirname(p) = folder_path /\ EndsWith(p, ".txt")})

(***************************************************************************)
(* The annotated files remove_blank_lines.py is run on                     *)
(***************************************************************************)

\* The annotated file holds up to MaxLines lines
MaxLines == 4

\* --output of the runs that do not overwrite their input
MergedOut == ProjectDir \o "/merged.txt"

HindiFolder == ActorLines \o "/hindi_male"

\* the pieces of an annotated file: a header with blanks around it, a
\* number without a text, an empty line, and a continuation that has no
\* newline, so that it ends the file or runs into the next piece
AnnotatedLines == {" 1. a \n", "2.\n", "\n", "b"}

RECURSIVE Texts(_)
\* the texts of up to n of these pieces
Texts(n) ==
    IF n = 0 THEN {""}
    ELSE {""} \cup {line \o text : line \in AnnotatedLines, text \in Texts(n - 1)}

InitMerge ==
    /\ report = NoReport
    /\ \E text \in Texts(MaxLines) :
          fs = (HI_ANN :> text) @@ (HI_TM :> "1. Namaste\n\n[aah]\n2. Namaste\n")

RunCleanFile ==
    \E input_file \in {HI_ANN, MergedOut}, output_file \in {None, MergedOut} :
       \E r \in {RBL_file(fs, input_file, output_file)} : fs' = r.fs /\ report' = r.report

RunCleanFolder ==
    \E folder_path \in {HindiFolder, ProjectDir, ActorLines \o "/hindi_female"} :
       \E r \in {process_folder(fs, folder_path)} : fs' = r.fs /\ report' = r.report

NextMerge == RunCleanFile \/ RunCleanFolder

SpecMerge == InitMerge /\ [][NextMerge]_vars

(***************************************************************************)
(* header.py: the header index of the annotated files                      *)
(***************************************************************************)

\* SECTION_TO_TAG
SECTION_TO_TAG ==
    [DIALOGUE |-> "dialogue", GENERAL_TAGS |-> "general_tags", SIMPLE_TAGS |-> "simple_tags",
     CUSTOMER_SUPPORT |-> "customer_support", MONOLOGUE |-> "monologue"]

\* MODE_TAGS
MODE_TAGS == {"pure", "mix", "en"}

\* \w of re
Word == {Ch(Upper \o Lowercase \o "0123456789_", k) : k \in 1..63}

RECURSIVE ToUpper(_)
\* s.upper()
ToUpper(s) ==
    IF s = "" THEN ""
    ELSE LET c == Ch(s, 1)
             k == FindFrom(Lowercase, c, 1)
         IN  (IF k = 0 THEN c ELSE Ch(Upper, k)) \o ToUpper(Tail(s))

RECURSIVE ToInt(_)
\* int(s) of a str of digits
ToInt(s) ==
    IF s = "" THEN 0
    ELSE ToInt(DropLast(s, 1)) * 10 + (FindFrom("0123456789", Ch(s, Len(s)), 1) - 1)

RECURSIVE Join(_, _)
\* sep.join(items)
Join(sep, items) ==
    IF Len(items) = 0 THEN ""
    ELSE IF Len(items) = 1 THEN items[1]
    ELSE items[1] \o sep \o Join(sep, Tail(items))

\* the whole of s where s.split('|')[0] is meant
BeforePipe_whole(s) == s

\* s.split('|')[0] and, for a str that holds "|", s.split('|', 1)[1]
BeforePipe(s) == IF Contains(s, "|") THEN Slice(s, 1, FindFrom(s, "|", 1) - 1) ELSE s

AfterPipe(s) == Slice(s, FindFrom(s, "|", 1) + 1, Len(s))

\* parse_line_with_inline_tag(line): <<line_num, tag>>, or <<>> for
\* (None, None)
parse_line_with_inline_tag(line) ==
    LET Tagged(t, m) ==
            IF m # <<>> /\ BeforePipe(Slice(t, m[2] + 1, m[3] - 1)) \notin MODE_TAGS
            THEN <<ToInt(Slice(t, 1, m[1])), Slice(t, m[2] + 1, m[3] - 1)>>
            ELSE <<>>
        Stripped(t) == Tagged(t, StartTagMatch(t))
    IN  Stripped(Strip(line))

\* parse_line_number(line): <<line_num>>, or <<>> for None
parse_line_number(line) ==
    LET Number(t, k) ==
            IF k >= 1 /\ Ch(t, k + 1) = "." THEN <<ToInt(Slice(t, 1, k))>> ELSE <<>>
        Stripped(t) == Number(t, RunLen(t, 1, Digits))
    IN  Stripped(Strip(line))

\* parse_section_header(line): the content type of the section, or None.
\* The pattern r'^#\s*---\s*(\w+)(?:\s*\(continued\))?\s*---' has one way
\* to match: every run is followed by a character that is not of the run.
parse_section_header(line) ==
    LET Get(section) ==
            IF section \in DOMAIN SECTION_TO_TAG THEN SECTION_TO_TAG[section] ELSE None
        Close(t, b, c, d) ==
            IF Slice(t, d + RunLen(t, d, Whitespace), d + RunLen(t, d, Whitespace) + 2) = "---"
            THEN Get(ToUpper(Slice(t, b, c - 1)))
            ELSE None
        Continued(t, b, c, c1) ==
            Close(t, b, c, IF Slice(t, c1, c1 + 10) = "(continued)" THEN c1 + 11 ELSE c)
        Name(t, b, w) ==
            IF w >= 1 THEN Continued(t, b, b + w, b + w + RunLen(t, b + w, Whitespace))
            ELSE None
        Dashes(t, a) ==
            IF Slice(t, a, a + 2) = "---"
            THEN Name(t, a + 3 + RunLen(t, a + 3, Whitespace),
                      RunLen(t, a + 3 + RunLen(t, a + 3, Whitespace), Word))
            ELSE None
        Stripped(t) ==
            IF Ch(t, 1) = "#" THEN Dashes(t, 2 + RunLen(t, 2, Whitespace)) ELSE None
    IN  Stripped(Strip(line))

\* the range of one run: str(start) or f"{start}-{end}"
RangeOf(start, end) ==
    IF start = end THEN ToStr(start) ELSE ToStr(start) \o "-" \o ToStr(end)

RECURSIVE RangesFrom(_, _, _, _, _)
\* the loop of ranges_to_string from numbers[i] on, with the start, end and
\* ranges it has reached; then the last range
RangesFrom(numbers, i, start, end, ranges) ==
    IF i > Len(numbers) THEN Append(ranges, RangeOf(start, end))
    ELSE IF numbers[i] = end + 1 THEN RangesFrom(numbers, i + 1, start, numbers[i], ranges)
    ELSE RangesFrom(numbers, i + 1, numbers[i], numbers[i],
                    Append(ranges, RangeOf(start, end)))

\* ranges_to_string without line 50: the numbers are taken as they come
ranges_to_string_as_given(numbers) ==
    IF numbers = <<>> THEN ""
    ELSE Join(", ", RangesFrom(numbers, 2, numbers[1], numbers[1], <<>>))

\* ranges_to_string(numbers) of a list of numbers
ranges_to_string(numbers) ==
    LET Sorted(sorted) == Join(", ", RangesFrom(sorted, 2, sorted[1], sorted[1], <<>>))
    IN  IF numbers = <<>> THEN "" ELSE Sorted(Ascending(Range(numbers)))

\* d[key] of a dict of lists d that was filled by the appends
\* d[appends[i][1]].append(appends[i][2]), in this order
Listed(appends, key) ==
    LET Of(mine) == [i \in 1..Len(mine) |-> mine[i][2]]
    IN  Of(SelectSeq(appends, LAMBDA a : a[1] = key))

\* the lines "# <key>: <ranges>  # <n> lines" of the keys that are in d
IndexLines(keys, appends) ==
    Concat([k \in 1..Len(keys) |->
              IF Listed(appends, keys[k]) # <<>>
              THEN "# " \o keys[k] \o ": " \o ranges_to_string(Listed(appends, keys[k]))
                   \o "  # " \o ToStr(Len(Listed(appends, keys[k]))) \o " lines\n"
              ELSE ""])

\* generate_header(content_types, professionalism, total_lines)
generate_header(content_types, professionalism, total_lines) ==
    "# Use these to select lines by category.\n#\n# === CONTENT TYPE ===\n"
    \o IndexLines(<<"dialogue", "general_tags", "simple_tags", "customer_support",
                    "monologue">>, content_types)
    \o "#\n# === PROFESSIONALISM (customer_support only) ===\n"
    \o IndexLines(<<"casual", "professional">>, professionalism)
    \o "#\n# TOTAL: " \o ToStr(total_lines) \o " speaker lines\n#"

\* the first position at or after i where one of the strings stops starts,
\* 0 if there is none: the end of a lazy match before a lookahead
StopAfter(content, i, stops) ==
    LET At(hits) == IF hits = {} THEN 0 ELSE Min(hits)
    IN  At({FindFrom(content, st, i) : st \in stops} \ {0})

\* re.search(marker + r'.*?(?=stop|...)', content, re.DOTALL) finds a match
LazyFound(content, marker, stops) ==
    LET Marker(k) == k # 0 /\ StopAfter(content, k + Len(marker), stops) # 0
    IN  Marker(FindFrom(content, marker, 1))

RECURSIVE LazySub(_, _, _, _, _)
\* re.sub(marker + r'.*?(?=stop|...)', repl, content, flags=re.DOTALL) from
\* the position from on: every match runs from a marker to the first stop
\* after it, and the search goes on at that stop
LazySub(content, from, marker, stops, repl) ==
    LET Stop(k, e) ==
            IF e = 0 THEN Slice(content, from, Len(content))
            ELSE Slice(content, from, k - 1) \o repl \o LazySub(content, e, marker, stops, repl)
        Marker(k) ==
            IF k = 0 THEN Slice(content, from, Len(content))
            ELSE Stop(k, StopAfter(content, k + Len(marker), stops))
    IN  Marker(FindFrom(content, marker, from))

\* "Find and replace the old header" of process_file
ReplaceHeader(content, new_header) ==
    IF LazyFound(content, "# Use these", {"\n# ---"})
    THEN LazySub(content, 1, "# Use these", {"\n# ---"}, new_header)
    ELSE IF LazyFound(content, "# LINE INDEX\n# Use these", {"\n#\n# ---", "\n# --- "})
    THEN LazySub(content, 1, "# LINE INDEX\n# Use these", {"\n#\n# ---", "\n# --- "},
                 "# LINE INDEX\n" \o new_header)
    ELSE content

\* the appends of the loop over an english-style file: for every line with
\* an inline tag, <<main_tag, line_num>> to content_types and, for a tag
\* with a "|", <<sub_tag, line_num>> to professionalism
InlineAppends(tags) ==
    LET Tagged(hits) ==
            [content_types |-> [k \in 1..Len(hits) |-> <<BeforePipe(hits[k][2]), hits[k][1]>>],
             professionalism |->
                 LET sub == SelectSeq(hits, LAMBDA h : Contains(h[2], "|"))
                 IN  [k \in 1..Len(sub) |-> <<AfterPipe(sub[k][2]), sub[k][1]>>],
             line_to_section |-> <<>>,
             total_lines |-> Max({0} \cup {hits[k][1] : k \in 1..Len(hits)})]
    IN  Tagged(SelectSeq(tags, LAMBDA r : r # <<>>))

RECURSIVE CurrentSections(_, _, _)
\* current_section at every line of the loop over a file with section
\* headers, None at the headers themselves (they are passed over); heads[i]
\* is parse_section_header of the line i
CurrentSections(heads, i, current_section) ==
    IF i > Len(heads) THEN <<>>
    ELSE IF heads[i] # None
    THEN <<None>> \o CurrentSections(heads, i + 1, heads[i])
    ELSE <<current_section>> \o CurrentSections(heads, i + 1, current_section)

\* the appends of the loop over a file with section headers: for every
\* numbered line under a section, <<current_section, line_num>>, and
\* line_to_section, which keeps the last section of a number
SectionAppends(numbers, current) ==
    LET Counted(at) ==
            [content_types |-> [k \in 1..Len(at) |-> <<current[at[k]], numbers[at[k]][1]>>],
             professionalism |-> <<>>,
             line_to_section |->
                 [n \in {numbers[at[k]][1] : k \in 1..Len(at)} |->
                    current[Max({i \in Range(at) : numbers[i][1] = n})]],
             total_lines |-> Max({0} \cup {numbers[at[k]][1] : k \in 1..Len(at)})]
    IN  Counted(SelectSeq([i \in 1..Len(numbers) |-> i],
                          LAMBDA i : numbers[i] # <<>> /\ current[i] # None))

\* re.sub(r'^(\d+\.)\s*', rf'\1 [{content_tag}] ', line)
InsertTag(line, content_tag) ==
    LET Number(k) ==
            IF k >= 1 /\ Ch(line, k + 1) = "."
            THEN Slice(line, 1, k + 1) \o " [" \o content_tag \o "] "
                 \o Slice(line, k + 2 + RunLen(line, k + 2, Whitespace), Len(line))
            ELSE line
    IN  Number(RunLen(line, 1, Digits))

\* one turn of the loop that adds the inline content type tags, without
\* the check for a tag that is already there
AddInlineTag_unchecked(line, head, number, line_to_section) ==
    IF head # None THEN line
    ELSE IF number # <<>> /\ number[1] \in DOMAIN line_to_section
    THEN InsertTag(line, line_to_section[number[1]])
    ELSE line

\* one turn of the loop that adds the inline content type tags
AddInlineTag(line, head, number, line_to_section) ==
    LET Tag(content_tag) ==
            IF /\ ~Contains(line, "[" \o content_tag \o "]")
               /\ ~Contains(line, "[" \o content_tag \o "|")
            THEN InsertTag(line, content_tag)
            ELSE line
    IN  IF head # None THEN line
        ELSE IF number # <<>> /\ number[1] \in DOMAIN line_to_section
        THEN Tag(line_to_section[number[1]])
        ELSE line

\* process_file(filepath, add_inline_tags) of header.py on a file of content
\* text: whether it writes the file, the text it writes, and what it prints
H_process_file(text, add_inline_tags) ==
    LET Result(content, a) ==
            [written |-> TRUE,
             text |-> ReplaceHeader(content,
                         generate_header(a.content_types, a.professionalism, a.total_lines)),
             content_types |-> a.content_types, professionalism |-> a.professionalism,
             total_lines |-> a.total_lines]
        Filled(lines, heads, numbers, a) ==
            IF add_inline_tags /\ DOMAIN a.line_to_section # {}
            THEN Result(JoinNL([i \in 1..Len(lines) |->
                                  AddInlineTag(lines[i], heads[i], numbers[i],
                                               a.line_to_section)]), a)
            ELSE Result(JoinNL(lines), a)
        Parsed(lines, heads, numbers, a) ==
            IF a.total_lines = 0
            THEN [written |-> FALSE, text |-> text, content_types |-> <<>>,
                  professionalism |-> <<>>, total_lines |-> 0]
            ELSE Filled(lines, heads, numbers, a)
        Passes(lines, heads, tags, numbers) ==
            IF /\ \E i \in 1..Len(lines) : tags[i] # <<>> /\ tags[i][1] # 0
               /\ \A i \in 1..Len(lines) : heads[i] = None
            THEN Parsed(lines, heads, numbers, InlineAppends(tags))
            ELSE Parsed(lines, heads, numbers,
                        SectionAppends(numbers, CurrentSections(heads, 1, None)))
        Lines(lines) ==
            Passes(lines,
                   List([i \in 1..Len(lines) |-> parse_section_header(lines[i])]),
                   List([i \in 1..Len(lines) |-> parse_line_with_inline_tag(lines[i])]),
                   List([i \in 1..Len(lines) |-> parse_line_number(lines[i])]))
    IN  Lines(SplitNL(Universal(text)))

\* the files main() of header.py processes, in its order: the
\* *_annotated.txt files of the directories under base_dir
H_files(f) ==
    SortedStrs({p \in DOMAIN f :
                  Dirname(Dirname(p)) = ActorLines /\ EndsWith(Basename(p), "_annotated.txt")})

\* what a run of header.py leaves in report: the files it wrote and what it
\* printed for each file it processed
HeaderReport(outcome, files, res) ==
    [tool |-> "header", outcome |-> outcome,
     written |-> {files[i] : i \in {j \in 1..Len(files) : res[j].written}},
     processed |-> files,
     printed |-> [i \in 1..Len(files) |->
                    [content_types |-> res[i].content_types,
                     professionalism |-> res[i].professionalism,
                     total_lines |-> res[i].total_lines]]]

\* the loop of main() of header.py over the files it reaches: every file is
\* processed on the content it has in f, and written if process_file writes
H_loop(f, outcome, files, res) ==
    [fs |-> [p \in DOMAIN f |->
               IF p \in Range(files) /\ res[IndexOf(files, p)].written
               THEN res[IndexOf(files, p)].text ELSE f[p]],
     report |-> HeaderReport(outcome, files, res)]

\* the indexes of the files that open(filepath, 'r', encoding='utf-8').read()
\* of process_file cannot decode
H_raising(f, files) == {i \in 1..Len(files) : ~Decodable(f[files[i]])}

\* the loop of main() of header.py over files, of which those at the
\* indexes raising cannot be read.  The read of process_file is in no try
\* block: at a file that cannot be read the script ends, with the files
\* before it written.
H_reads(f, files, raising) ==
    H_loop(f, IF raising = {} THEN "done" ELSE "UnicodeDecodeError",
           IF raising = {} THEN files ELSE SubSeq(files, 1, Min(raising) - 1),
           [i \in 1..Len(files) |->
              IF raising # {} /\ i >= Min(raising) THEN None
              ELSE H_process_file(f[files[i]],
                      ~StartsWith(Basename(Dirname(files[i])), "english_"))])

\* main() of header.py on the file system f
H_main(f) ==
    IF ~DirExists(f, ActorLines)
    THEN [fs |-> f, report |-> HeaderReport("base_dir does not exist", <<>>, <<>>)]
    ELSE H_reads(f, H_files(f), H_raising(f, H_files(f)))

RunHeader ==
    \E r \in {H_main(fs)} : fs' = r.fs /\ report' = r.report

(***************************************************************************)
(* Start-tag propagation from a log that lists source files without a      *)
(* tag_match file                                                          *)
(***************************************************************************)

\* a source file of the hindi folder that has no tag_match file
HI_F == ActorLines \o "/hindi_male/new_order_hi_f_lines.txt"

\* a source file of a folder that does not exist
FR_L == ActorLines \o "/french_female/new_order_fr_f_lines.txt"

\* the log remove_start_tags.py leaves when it removed [pause] after the
\* number of the lines q[k] = <<dialogue number, source file>>, in this
\* order
StartLogOver(q) ==
    RST_log_text([k \in 1..Len(q) |->
                    [dialogue_num |-> q[k][1], file_line |-> k, filepath |-> q[k][2],
                     tag |-> "pause", original |-> Strip(SourceLine(q[k][1], 2))]])

\* The log lists a source file without a tag_match file before or after
\* the hindi source file, or both of them around it; or the root directory
\* of the corpus is missing and only the logs of earlier runs are there.
InitUnresolved ==
    /\ report = NoReport
    /\ \/ \E c \in [1..MaxDialogue -> 2..3], d \in Dlg, u \in {HI_F, FR_L} :
            \E q \in {<<<<d, HI_L>>, <<"1", u>>>>, <<<<"1", u>>, <<d, HI_L>>>>} :
               fs = StartCorpus(SourceFile(All(1)), StartVariantFile(c))
                    @@ (StartLog :> StartLogOver(q))
       \/ \E c \in [1..MaxDialogue -> 2..3], d \in Dlg :
            fs = StartCorpus(SourceFile(All(1)), StartVariantFile(c))
                 @@ (HI_F :> SourceLine(d, 2))
                 @@ (StartLog :> StartLogOver(<<<<"1", FR_L>>, <<d, HI_L>>, <<d, HI_F>>>>))
       \/ \E D \in SUBSET Dlg, b \in Dlg :
            fs = (StartLog :> StartLogOf(D)) @@ (EndLog :> PipeLog(b, b))

NextUnresolved == RunRemoveLangStartTags \/ RunRemoveLangStartTagsDryRun

SpecUnresolved == InitUnresolved /\ [][NextUnresolved]_vars

(***************************************************************************)
(* The batch tools on a corpus with a file that cannot be read, without    *)
(* its root directory, or without the removal log                          *)
(***************************************************************************)

\* the files of f whose bytes are not UTF-8: reading one raises
Unreadable(f) == {p \in DOMAIN f : ~Decodable(f[p])}

\* a corpus of the five batch tools: a canonical english file, a hindi
\* source file with its tag_match file, and the annotated tag_match file
\* with a header to regenerate
BatchCorpus(c) ==
    (EN1N :> CanonicalFile(c))
    @@ (HI_L :> SourceFile(All(2)))
    @@ (HI_TML :> StartVariantFile(c))
    @@ (HI_ANN :> "# Use these\n# --- DIALOGUE ---\n" \o VariantFile(All(2)))

\* Either one file of the corpus holds a byte that is not UTF-8, before or
\* after its text, and both logs are there; or the corpus has no root
\* directory and the logs of an earlier run are there, or none; or the
\* corpus is there without the log of removed end tags.
InitErrors ==
    /\ report = NoReport
    /\ \/ \E c \in [1..MaxDialogue -> 2..3], bad \in {EN1N, HI_L, HI_TML, HI_ANN},
            first \in BOOLEAN :
            fs = [BatchCorpus(c) EXCEPT ![bad] = IF first THEN Undecodable \o @
                                                 ELSE @ \o Undecodable]
                 @@ (StartLog :> StartLogOf(Dlg)) @@ (EndLog :> PipeLog("1", "1"))
       \/ \E D \in SUBSET Dlg, b \in Dlg :
            fs = (StartLog :> StartLogOf(D)) @@ (EndLog :> PipeLog(b, b))
       \/ fs = <<>>
       \/ \E c \in [1..MaxDialogue -> 2..3] :
            fs = BatchCorpus(c) @@ (StartLog :> StartLogOf(Dlg))

\* a batch tool is run on the corpus as it was found: the runs that follow
\* one another on a sound corpus are those of the pipelines above
NextErrors ==
    \/ report = NoReport /\ RunRemoveUnlisted
    \/ report = NoReport /\ RunRemoveEndTags
    \/ report = NoReport /\ RunRemoveStartTags
    \/ report = NoReport /\ RunRemoveLangStartTags
    \/ report = NoReport /\ RunHeader

SpecErrors == InitErrors /\ [][NextErrors]_vars

(***************************************************************************)
(* Header regeneration: the annotated files header.py is run on            *)
(***************************************************************************)

EN_ANN == ActorLines \o "/english_1/new_order_en_1_lines_annotated.txt"

\* the lines an english annotated file holds for a dialogue: a content type
\* tag, customer_support with a professionalism, another content type with
\* one, a mode tag, and no tag
InlineLine(d, k) ==
    CASE k = 1 -> d \o ". [dialogue] Hello\n"
      [] k = 2 -> d \o ". [customer_support|professional] Hello\n"
      [] k = 3 -> d \o ". [customer_support|casual] Hello\n"
      [] k = 4 -> d \o ". [dialogue|casual] Hello\n"
      [] k = 5 -> d \o ". [monologue] Hello\n"
      [] k = 6 -> d \o ". [mix] Hello\n"
      [] k = 7 -> d \o ". Hello\n"

\* the place of the index in an annotated file: none; an old index that
\* ends at a line of dashes before the first dialogue; an old index whose
\* line of dashes comes after the first dialogue
IndexedFile(h, lines) ==
    CASE h = 1 -> Concat(lines)
      [] h = 2 -> "# LINE INDEX\n# Use these to select lines by category.\n# dialogue: 1\n#\n"
                  \o "# ----------\n" \o Concat(lines)
      [] h = 3 -> "# LINE INDEX\n# Use these to select lines by category.\n"
                  \o Head(lines) \o "# ----------\n" \o Concat(Tail(lines))

\* an english annotated file with the index at place h and one line per
\* dialogue, of the shapes c
InlineFile(h, c) == IndexedFile(h, [n \in 1..MaxDialogue |-> InlineLine(ToStr(n), c[n])])

\* the lines a hindi annotated file holds for a dialogue: the line without
\* a tag or with the tag of its section, alone or under a section header,
\* and the line under a continued section header or under a header of no
\* content type
SectionLine(d, k) ==
    (CASE k \in {1, 2} -> ""
       [] k \in {3, 4} -> "# --- DIALOGUE ---\n"
       [] k = 5 -> "#  --- Monologue (continued) ---\n"
       [] k = 6 -> "# --- NOTES ---\n")
    \o d \o (IF k \in {2, 4} THEN ". [dialogue] Namaste\n" ELSE ". Namaste\n")

\* a hindi annotated file with an old index and one line per dialogue, of
\* the shapes c
SectionFile(c) ==
    "# LINE INDEX\n# Use these to select lines by category.\n#\n"
    \o Concat([n \in 1..MaxDialogue |-> SectionLine(ToStr(n), c[n])])

\* the file of the example: the lines 1-20 are customer_support and
\* professional, the line 21 is customer_support and casual
ExampleFile ==
    IndexedFile(2, [n \in 1..21 |-> InlineLine(ToStr(n), IF n <= 20 THEN 2 ELSE 3)])

\* One of the two annotated files varies: the english file over the shapes
\* of its lines, or over the places of its index, or the hindi file over
\* its sections and lines; or the english file is the file of the example.
InitHeader ==
    /\ report = NoReport
    /\ \/ \E c \in [1..MaxDialogue -> 1..7] :
            fs = (EN_ANN :> InlineFile(2, c)) @@ (HI_ANN :> SectionFile(All(3)))
       \/ \E h \in {1, 3}, c \in [1..MaxDialogue -> {1, 3, 4}] :
            fs = (EN_ANN :> InlineFile(h, c)) @@ (HI_ANN :> SectionFile(All(3)))
       \/ \E c \in [1..MaxDialogue -> 1..6] :
            fs = (EN_ANN :> InlineFile(2, All(1))) @@ (HI_ANN :> SectionFile(c))
       \/ fs = (EN_ANN :> ExampleFile) @@ (HI_ANN :> SectionFile(All(3)))

NextHeader == RunHeader

SpecHeader == InitHeader /\ [][NextHeader]_vars

(***************************************************************************)
(* Range compression: the lists of numbers ranges_to_string is called on   *)
(***************************************************************************)

\* The lists hold up to MaxNumbers numbers
MaxNumbers == 3

\* The numbers are 1..MaxNumber, and 9, 10, 11 with one and two digits
MaxNumber == 4

RECURSIVE ListsOver(_, _)
\* the lists of up to n items of the set S
ListsOver(S, n) ==
    IF n = 0 THEN {<<>>}
    ELSE ListsOver(S, n - 1) \cup {Append(q, x) : q \in ListsOver(S, n - 1), x \in S}

\* Any list of numbers, in any order and with duplicates, or the numbers
\* of the example, in order or not
InitRanges ==
    /\ fs = <<>>
    /\ \E numbers \in ListsOver((1..MaxNumber) \cup {9, 10, 11}, MaxNumbers)
                      \cup {<<1, 2, 3, 5, 7, 8, 9>>, <<9, 7, 8, 5, 3, 1, 2, 3>>} :
          report = [tool |-> "none", numbers |-> numbers, ranges |-> None]

\* a call of ranges_to_string on the list
RunRangesToString ==
    /\ report.tool = "none"
    /\ report' = [tool |-> "ranges_to_string", numbers |-> report.numbers,
                  ranges |-> ranges_to_string(report.numbers)]
    /\ UNCHANGED fs

NextRanges == RunRangesToString

SpecRanges == InitRanges /\ [][NextRanges]_vars

(***************************************************************************)
(* check_tags.py: the report of the end tags that are not allowed          *)
(***************************************************************************)

\* output_file of check_tags.py
TagsAtEnd == ProjectDir \o "/tags_at_end.txt"

\* one turn of the loop of process_file: the line is flagged when it has an
\* end tag that is not on the allow-list
CT_process_line(line) ==
    LET Checked(tag) ==
            IF tag # None /\ Lower(tag) \notin ALLOWED_TAGS_LOWER
            THEN [out |-> line, hit |-> TRUE, dialogue_num |-> None, tag |-> tag]
            ELSE [out |-> line, hit |-> FALSE, dialogue_num |-> None, tag |-> None]
    IN  Checked(extract_end_tag(RStripNL(line)))

\* process_file(filepath) of check_tags.py on a file of content text: the
\* list unlisted, and the file as it was.  The lines are read one by one
\* inside the try block; the files here are shorter than the block the
\* decoder reads at once, so a byte that is not UTF-8 raises at the first
\* line.
CT_process_file(text) ==
    LET Lines(res) == [removed |-> RemovedAt(res, Hits(res)), text |-> text]
    IN  IF ~Decodable(text) THEN [removed |-> <<>>, text |-> text]
        ELSE Lines(List([i \in 1..Len(ReadLines(text)) |->
                           CT_process_line(ReadLines(text)[i])]))

\* the text main of check_tags.py writes to output_file
CT_log_text(all_unlisted) ==
    LET Text(tags, keys) ==
            "# Tags at end of lines NOT in allowed list\n"
            \o "# Total instances: " \o ToStr(Len(all_unlisted)) \o "\n"
            \o "# Unique tags: " \o ToStr(Len(keys)) \o "\n"
            \o "#" \o Rep("=", 59) \o "\n\n"
            \o "## SUMMARY - Unique unlisted tags:\n"
            \o TagCounts(tags, keys, " occurrences")
            \o "\n" \o Rep("=", 60) \o "\n\n"
            \o "## DETAILED LOCATIONS:\n\n"
            \o Sections(all_unlisted, FilesOf(all_unlisted),
                        [i \in 1..Len(all_unlisted) |-> UL_entry(all_unlisted[i])])
        Tags(tags) == Text(tags, Distinct(tags))
    IN  Tags(TagsOf(all_unlisted))

\* main() of check_tags.py with the default base_path, run on the file
\* system f
CT_main(f) ==
    LET Written(all_unlisted) ==
            [fs |-> WriteFile(f, TagsAtEnd, CT_log_text(all_unlisted)),
             report |-> Summary("check_tags", "done", {}, all_unlisted)]
        Found(target_files) ==
            IF target_files = <<>>
            THEN [fs |-> f, report |-> Summary("check_tags", "no target files", {}, <<>>)]
            ELSE Written(AllRemoved(target_files,
                                    List([i \in 1..Len(target_files) |->
                                            CT_process_file(f[target_files[i]])])))
    IN  Found(UL_find_target_files(f))

RunCheckTags ==
    \E r \in {CT_main(fs)} : fs' = r.fs /\ report' = r.report

\* the lines a canonical file holds for a dialogue: no end tag; an end tag
\* of the allow-list as it is written there, with a capital, in capitals
\* with blanks behind it; an end tag that is not on the list, one that
\* differs from an entry by a letter and one by a blank; a tag that is not
\* at the end; two tags at the end
CheckedLine(d, k) ==
    CASE k = 1 -> d \o ". Hello\n"
      [] k = 2 -> d \o ". Hello [sighs]\n"
      [] k = 3 -> d \o ". Hello [Sighs]\n"
      [] k = 4 -> d \o ". Hello [SIGHS]  \n"
      [] k = 5 -> d \o ". Hello [gasps]\n"
      [] k = 6 -> d \o ". Hello [sighss]\n"
      [] k = 7 -> d \o ". Hello [ sighs]\n"
      [] k = 8 -> d \o ". [gasps] Hello\n"
      [] k = 9 -> d \o ". Hello [sighs] [Gasps]\n"

\* One line of the english canonical file is any of these lines, the
\* others have no end tag or one that is not allowed; beside it are a hindi
\* canonical file and a tag_match file, which is no target.
InitCheck ==
    /\ report = NoReport
    /\ \E n \in 1..MaxDialogue, k \in 1..9, others \in {1, 5} :
          fs = (EN1N :> Concat([m \in 1..MaxDialogue |->
                                  CheckedLine(ToStr(m), IF m = n THEN k ELSE others)]))
               @@ (HI_N :> CanonicalFile(All(3)))
               @@ (HI_TM :> VariantFile(All(2)))

NextCheck == RunCheckTags \/ RunRemoveUnlisted

SpecCheck == InitCheck /\ [][NextCheck]_vars

(***************************************************************************)
(* Silent start-tag removal: the lines remove_start_tags.py is run on      *)
(***************************************************************************)

\* the lines of a file for the dialogue d: without a tag, with a silent tag
\* after the number in several spacings, with a tag that is not silent, with
\* silent tags at the other start positions and elsewhere, and with two
\* silent tags in the order of SILENT_TAGS and against it
SilentLine(d, k) ==
    CASE k = 1 -> d \o ". Sure, I can help."
      [] k = 2 -> "240. [nodding] Sure, I can help."
      [] k = 3 -> d \o ".[nodding]Sure"
      [] k = 4 -> d \o ". [Nodding] Sure"
      [] k = 5 -> d \o ". [sighs] Sure"
      [] k = 6 -> d \o ". [sighs] [nodding] Sure"
      [] k = 7 -> d \o ". [nodding] [pause] Sure"
      [] k = 8 -> d \o ". [pause] [nodding] Sure"
      [] k = 9 -> "[pause] Sure"
      [] k = 10 -> "Ravi: [pause] Sure"
      [] k = 11 -> d \o ". Ravi: [long pause] Sure"
      [] k = 12 -> d \o ". [nodding]"
      [] k = 13 -> d \o ". [nodding] Ravi: [pause] Sure"
      [] k = 14 -> d \o ". [pause] Ravi: [nodding] Sure"
      [] k = 15 -> d \o ". Sure [nodding]"
      [] k = 16 -> "[pause] [nodding] Sure"
      [] k = 17 -> d \o ". [sighs] Ravi: [grinning] Sure"
      [] k = 18 -> d \o ". [thoughtful pause]   Sure"

\* a file of one line per dialogue, of the shapes c
SilentFile(c) == Concat([n \in 1..MaxDialogue |-> SilentLine(ToStr(n), c[n]) \o "\n"])

\* The english file holds, for one dialogue, a line of any shape and, for
\* the others, a line without a tag or with one silent tag
InitSilent ==
    /\ report = NoReport
    /\ \E n \in 1..MaxDialogue, k \in 1..18, c \in [1..MaxDialogue -> {1, 3}] :
          fs = (EN_L :> SilentFile([c EXCEPT ![n] = k]))

\* the script is run, and run again on what it left
NextSilent == RunRemoveStartTags

SpecSilent == InitSilent /\ [][NextSilent]_vars

(***************************************************************************)
(* Start-tag propagation: the tag_match lines the propagation is run on    *)
(***************************************************************************)

\* the lines a tag_match file holds for the dialogue d: without a start
\* tag, with one before the text in several spacings, with two, with a tag
\* at the end of the text, and with a start tag that is the last thing on
\* the line, with and without blanks behind it
TargetLine(d, k) ==
    CASE k = 1 -> d \o ". Namaste\n"
      [] k = 2 -> d \o ". [ruk kar] Namaste\n"
      [] k = 3 -> d \o ". [ruk kar] [sir hila kar] Namaste\n"
      [] k = 4 -> d \o ".[ruk kar]Namaste\n"
      [] k = 5 -> d \o ". Namaste [ruk kar]\n"
      [] k = 6 -> d \o ". [ruk kar]\n"
      [] k = 7 -> d \o ". [ruk kar]  \n"
      [] k = 8 -> d \o ". [ruk kar] \tNamaste\n"

\* a tag_match file of one line per dialogue, of the shapes c
TargetFile(c) == Concat([n \in 1..MaxDialogue |-> TargetLine(ToStr(n), c[n])])

\* The source files are clean, the log of remove_start_tags.py lists the
\* dialogues of D for the hindi source file, and the tag_match file holds,
\* for one dialogue, a line of any shape and, for the others, a line
\* without a start tag or with one before the text
InitPropagate ==
    /\ report = NoReport
    /\ \E n \in 1..MaxDialogue, k \in 1..8, c \in [1..MaxDialogue -> {1, 2}], D \in SUBSET Dlg :
          fs = StartCorpus(SourceFile(All(1)), TargetFile([c EXCEPT ![n] = k]))
               @@ (StartLog :> StartLogOf(D))

\* the propagation is run, and run again on what it left
NextPropagate == RunRemoveLangStartTags

SpecPropagate == InitPropagate /\ [][NextPropagate]_vars

(***************************************************************************)
(* find_start.py: the report of the tags at the start of dialogue lines    *)
(***************************************************************************)

\* output_file of find_start.py
AllStartTags == ProjectDir \o "/all_start_tags.txt"

\* glob(base_path/**/*_lines.txt), without the names that hold "tag_match"
\* or "_lines_numbered", sorted
FS_find_target_files(f) ==
    SortedStrs({p \in DOMAIN f :
                  /\ StartsWith(p, ActorLines \o "/")
                  /\ EndsWith(Basename(p), "_lines.txt")
                  /\ ~Contains(Basename(p), "tag_match")
                  /\ ~Contains(Basename(p), "_lines_numbered")})

\* extract_start_tag(line): "[" group 2 "]" of
\* re.match(r'^(\d+)\.\s*\[([^\]]+)\]', line), or None
extract_start_tag(line) ==
    IF StartTagMatch(line) = <<>> THEN None
    ELSE Slice(line, StartTagMatch(line)[2], StartTagMatch(line)[3])

\* one turn of the loop of process_file over a line
FS_process_line(line) ==
    IF extract_start_tag(RStripNL(line)) # None
    THEN [out |-> line, hit |-> TRUE,
          dialogue_num |-> extract_dialogue_number(RStripNL(line)),
          tag |-> extract_start_tag(RStripNL(line))]
    ELSE [out |-> line, hit |-> FALSE, dialogue_num |-> None, tag |-> None]

\* process_file(filepath) of find_start.py on a file of content text: the
\* list found, and the file as it was; a file that cannot be read gives an
\* empty list
FS_process_file(text) ==
    IF ~Decodable(text) THEN [removed |-> <<>>, text |-> text]
    ELSE [removed |-> RemovedAt([i \in 1..Len(ReadLines(text)) |->
                                   FS_process_line(ReadLines(text)[i])],
                                Hits([i \in 1..Len(ReadLines(text)) |->
                                        FS_process_line(ReadLines(text)[i])])),
          text |-> text]

RECURSIVE SortedByLower(_)
\* sorted(keys, key=lambda x: x.lower()): the sort is stable
SortedByLower(keys) ==
    IF keys = <<>> THEN <<>>
    ELSE LET i == CHOOSE i \in 1..Len(keys) :
                     /\ \A j \in 1..Len(keys) : ~StrLess(Lower(keys[j]), Lower(keys[i]))
                     /\ \A j \in 1..(i - 1) : Lower(keys[j]) # Lower(keys[i])
         IN  <<keys[i]>> \o SortedByLower(SubSeq(keys, 1, i - 1) \o SubSeq(keys, i + 1, Len(keys)))

\* an entry of the log of find_start.main
FS_entry(r) ==
    "  Line " \o ToStr(r.line_num) \o " | "
    \o (IF r.dialogue_num # None THEN "Dialogue " \o r.dialogue_num ELSE "N/A")
    \o " | " \o r.tag \o "\n"

\* the text main of find_start.py writes to output_file; tags are the tags
\* of all_found and keys the keys of tag_counts
FS_log_text(all_found, tags, keys) ==
    "# ALL tags at START of dialogue lines\n"
    \o "# Total instances: " \o ToStr(Len(all_found)) \o "\n"
    \o "# Unique tags: " \o ToStr(Len(keys)) \o "\n"
    \o "#" \o Rep("=", 59) \o "\n\n"
    \o "## ALL UNIQUE START TAGS (sorted by count):\n"
    \o TagCounts(tags, keys, "")
    \o "\n" \o Rep("=", 60) \o "\n\n"
    \o "## ALL UNIQUE START TAGS (alphabetical):\n"
    \o Concat([k \in 1..Len(keys) |-> "  " \o SortedByLower(keys)[k] \o "\n"])
    \o "\n" \o Rep("=", 60) \o "\n\n"
    \o "## DETAILED LOCATIONS:\n"
    \o "# Format: File path | File line | Dialogue # | Tag\n\n"
    \o Sections(all_found, FilesOf(all_found),
                [i \in 1..Len(all_found) |-> FS_entry(all_found[i])])

\* main() of find_start.py after the loop over the target files, with the
\* list all_found
FS_written(f, all_found) ==
    [fs |-> WriteFile(f, AllStartTags,
                      FS_log_text(all_found, TagsOf(all_found), Distinct(TagsOf(all_found)))),
     report |-> Summary("find_start", "done", {}, all_found)]

\* main() of find_start.py with the target files it found
FS_found(f, target_files) ==
    IF target_files = <<>>
    THEN [fs |-> f, report |-> Summary("find_start", "no target files", {}, <<>>)]
    ELSE FS_written(f, AllRemoved(target_files,
                                  [i \in 1..Len(target_files) |->
                                     FS_process_file(f[target_files[i]])]))

\* main() of find_start.py with the default base_path, run on the file
\* system f
FS_main(f) == FS_found(f, FS_find_target_files(f))

RunFindStart ==
    \E r \in {FS_main(fs)} : fs' = r.fs /\ report' = r.report

(***************************************************************************)
(* Lines that are all tag: the files the end-tag scripts and find_start.py *)
(* are run on                                                              *)
(***************************************************************************)

\* the lines a file holds for the dialogue d: no tag, an end tag that is
\* not allowed, the number and such a tag with nothing else, two such tags
\* at the end, a start tag, an allowed end tag, the number and an allowed
\* tag, and the number and a tag without a blank between them
EdgeLine(d, k) ==
    CASE k = 1 -> d \o ". Hello\n"
      [] k = 2 -> d \o ". Hello [gasps]\n"
      [] k = 3 -> d \o ". [gasps]\n"
      [] k = 4 -> d \o ". Hello [gasps] [wheezes]\n"
      [] k = 5 -> d \o ". [gasps] Hello\n"
      [] k = 6 -> d \o ". Hello [sighs]\n"
      [] k = 7 -> d \o ". [sighs]\n"
      [] k = 8 -> d \o ".[gasps]\n"

\* a file of one line per dialogue, of the shapes c
EdgeFile(c) == Concat([n \in 1..MaxDialogue |-> EdgeLine(ToStr(n), c[n])])

\* An english source file, the numbered canonical file and a hindi
\* tag_match file hold the same lines: for one dialogue a line of any
\* shape, for the others a line with one end tag; the log of removed end
\* tags lists every dialogue
InitEdge ==
    /\ report = NoReport
    /\ \E n \in 1..MaxDialogue, k \in 1..8 :
          fs = (EN_L :> EdgeFile([All(2) EXCEPT ![n] = k]))
               @@ (EN1N :> EdgeFile([All(2) EXCEPT ![n] = k]))
               @@ (HI_TM :> EdgeFile([All(2) EXCEPT ![n] = k]))
               @@ (EndLog :> PipeLog("1", "1"))

NextEdge == RunFindStart \/ RunCheckTags \/ RunRemoveUnlisted \/ RunRemoveEndTags

SpecEdge == InitEdge /\ [][NextEdge]_vars

(***************************************************************************)
(* Removal runs that fail on the way: a corpus without logs, of which one  *)
(* file may be unreadable                                                  *)
(***************************************************************************)

\* An english and a hindi source file with or without silent start tags,
\* the tag_match file of the hindi one and a canonical numbered file with
\* end tags; no script has run yet, so there is no log; one of the files,
\* or none, ends with a byte that is not UTF-8
InitInterrupted ==
    /\ report = NoReport
    /\ \E c \in [1..MaxDialogue -> 1..2], bad \in {None, EN_L, HI_L, HI_TML, EN1N} :
          fs = [p \in {EN_L, HI_L, HI_TML, EN1N} |->
                  (CASE p = EN_L -> SourceFile(c)
                     [] p = HI_L -> SourceFile(All(2))
                     [] p = HI_TML -> StartVariantFile(All(2))
                     [] p = EN1N -> CanonicalFile(All(3)))
                  \o (IF p = bad THEN Undecodable ELSE "")]

NextInterrupted == RunRemoveStartTags \/ RunRemoveLangStartTags \/ RunRemoveUnlisted

SpecInterrupted == InitInterrupted /\ [][NextInterrupted]_vars

(***************************************************************************)
(* Wrapped files in which a number stands alone on its line                *)
(***************************************************************************)

\* the pieces of a wrapped file: a header, a number whose text starts on
\* the next line (a blank follows the "."), a blank line, a continuation
\* and an indented continuation
WrappedLines == {"1. a\n", "2. \n", " \n", "b\n", "  c \n"}

RECURSIVE WrappedTexts(_)
\* the texts of up to n of these pieces
WrappedTexts(n) ==
    IF n = 0 THEN {""}
    ELSE {""} \cup {line \o text : line \in WrappedLines, text \in WrappedTexts(n - 1)}

InitShape ==
    /\ report = NoReport
    /\ \E text \in WrappedTexts(MaxLines) : fs = (HI_ANN :> text)

NextShape == RunCleanFile \/ RunCleanFolder

SpecShape == InitShape /\ [][NextShape]_vars

(***************************************************************************)
(* Annotated files whose dialogue numbers are not contiguous               *)
(***************************************************************************)

\* An english annotated file with an old index and a line, tagged dialogue
\* or customer_support|professional, for each number of a set of numbers
\* up to MaxNumber: dialogues between them were taken out
InitGaps ==
    /\ report = NoReport
    /\ \E S \in (SUBSET (1..MaxNumber)) \ {{}}, c \in [1..MaxNumber -> 1..2] :
          fs = (EN_ANN :> IndexedFile(2, [i \in 1..Cardinality(S) |->
                                            InlineLine(ToStr(Ascending(S)[i]),
                                                       c[Ascending(S)[i]])]))

NextGaps == RunHeader

SpecGaps == InitGaps /\ [][NextGaps]_vars

(***************************************************************************)
(* The properties of the pipeline                                          *)
(***************************************************************************)

\* the files remove_end_tags.main processes on the file system f
EndTargets(f) ==
    UNION {Range(find_target_files(f, d)) : d \in Range(find_language_folders(f))}

\* a run of result r on a file of content text removed nothing and left
\* every line as it was
NoOp(r, text) == r.removed = <<>> /\ r.text = text

\* the dialogue numbers the start-tag log of the pairs logged lists under
\* the source file source_path
LoggedNums(logged, source_path) == {x[1] : x \in {y \in logged : y[2] = source_path}}

\* C1: End-tag propagation is idempotent: after a run of remove_end_tags, a
\* second process_target_file with the same pending set on any file the
\* run processed removes nothing and changes no line.
C1_EndTagPropagationIdempotent ==
    (report.tool = "remove_end_tags" /\ report.outcome = "done") =>
        \A p \in EndTargets(fs) : NoOp(process_target_file(fs[p], report.pending), fs[p])

\* C2: Start-tag propagation is idempotent: after a run of
\* remove_lang_start_tags that was not a dry run, the loop body run again
\* with the same log on any tag_match file a source resolved to removes no
\* tag and changes no line.
C2_StartTagPropagationIdempotent ==
    (report.tool = "remove_lang_start_tags" /\ report.outcome = "done") =>
        (~report.dry_run =>
            \A r \in report.resolved :
               NoOp(RLS_process_file(fs[r[2]], r[2], LoggedNums(report.pending, r[1])),
                    fs[r[2]]))

\* the dialogue numbers of the lines of the english files that a run of
\* remove_unlisted with the removals removed took an end tag from, read
\* from the file system f the run started on
CanonicalRemovals(f, removed) ==
    {extract_dialogue_number(RStripNL(ReadLines(f[r.filepath])[r.line_num])) :
        r \in {x \in Range(removed) : Contains(x.filepath, "/english_")}}

\* C3: End-tag log round trip: the log a run of remove_unlisted.main has
\* written, parsed by remove_end_tags.parse_removal_log, gives exactly the
\* dialogue numbers of the english lines the run removed an end tag from.
C3_EndLogRoundTrip ==
    [][(report'.tool = "remove_unlisted" /\ report'.outcome = "done") =>
          parse_removal_log(fs'[EndLog]) = CanonicalRemovals(fs, report'.removed)]_vars

\* the number a line starts with when a "." follows it, None otherwise
NumberOfLine(line) ==
    IF RunLen(line, 1, Digits) >= 1 /\ Ch(line, RunLen(line, 1, Digits) + 1) = "."
    THEN Slice(line, 1, RunLen(line, 1, Digits))
    ELSE None

\* the pairs are those of the removals, one for one and in their order:
\* the file of the removal and, where its line has one, its number
PairsMatch(pairs, removed) ==
    /\ Len(pairs) = Len(removed)
    /\ \A i \in 1..Len(removed) :
          /\ pairs[i][2] = removed[i].filepath
          /\ NumberOfLine(removed[i].original) # None
                => pairs[i][1] = NumberOfLine(removed[i].original)

\* C4: Start-tag log round trip: the log a run of remove_start_tags has
\* written, parsed as remove_lang_start_tags parses it, gives a (dialogue
\* number, source file) pair for every tag the run removed, by whichever of
\* its three rules, and no other pair.
C4_StartLogRoundTrip ==
    report.tool = "remove_start_tags" =>
        PairsMatch(LogPairs(Universal(fs[StartLog])), report.removed)

\* the line old of a variant file may be stripped: its dialogue number
\* is pending and it has an end tag
MayChange(old, pending) ==
    /\ extract_dialogue_number(RStripNL(old)) # None
    /\ extract_dialogue_number(RStripNL(old)) \in pending
    /\ has_end_tag(RStripNL(old))

\* the lines new are the lines old, one for one, but for lines that may
\* be stripped
Frame(old, new, pending) ==
    /\ Len(new) = Len(old)
    /\ \A i \in 1..Len(old) : new[i] # old[i] => MayChange(old[i], pending)

\* C5 (as amended): End-tag propagation transition rule: a run of
\* remove_end_tags changes a line of a file only if the dialogue number of
\* the line is pending and the line has an end tag; every other line is,
\* as a read in text mode gives it, the same line at the same position
\* after the run, whether or not every pending number occurs in the file.
C5_TransitionRuleOfLinesRead ==
    [][report'.tool = "remove_end_tags" =>
          \A p \in DOMAIN fs \ {TranslatedLog} :
             Frame(ReadLines(fs[p]), ReadLines(fs'[p]), report'.pending)]_vars

\* C5 (as stated): the same rule with every other line byte-identical
\* after the run, its line terminator included.
C5_TransitionRuleByteIdentical ==
    [][report'.tool = "remove_end_tags" =>
          \A p \in DOMAIN fs \ {TranslatedLog} :
             Frame(LinesOf(fs[p]), LinesOf(fs'[p]), report'.pending)]_vars

\* the dialogue numbers of the lines of the text
NumbersIn(text) == {extract_dialogue_number(RStripNL(l)) : l \in Range(ReadLines(text))}

\* a run of remove_end_tags has stripped lines although a pending number
\* is absent from the french file, and has left an end tag on a line of
\* the hindi file whose number is not pending
C5_Witness ==
    /\ report.tool = "remove_end_tags" /\ report.outcome = "done"
    /\ report.removed # <<>>
    /\ report.pending \ NumbersIn(fs[FR_TM]) # {}
    /\ \E l \in Range(ReadLines(fs[HI_TM])) :
          /\ has_end_tag(RStripNL(l))
          /\ extract_dialogue_number(RStripNL(l)) \in Dlg \ report.pending

\* the entries of a removal log of content text: its "Line ..." lines
LogEntries(text) == {Strip(l) : l \in {x \in Range(ReadLines(text)) : StartsWith(Strip(x), "Line ")}}

\* a run of the tool that wrote the log before keeps the entries of the log
KeepsEntries(tool, log) ==
    (report.tool = tool /\ report.outcome = "done" /\ report'.tool = tool) =>
        LogEntries(fs[log]) \subseteq LogEntries(fs'[log])

\* C6: The removal log is append-only: a run of remove_unlisted or of
\* remove_end_tags that follows a run of the same tool leaves every entry
\* of the earlier run in the log of the tool.
C6_RemovalLogAppendOnly ==
    [][/\ KeepsEntries("remove_unlisted", EndLog)
       /\ KeepsEntries("remove_end_tags", TranslatedLog)]_vars

\* C7: Merge idempotence: clean_and_merge_lines applied to a file it has
\* written gives the lines of the file again.
C7_MergeIdempotent ==
    (report.tool = "remove_blank_lines" /\ report.outcome = "done") =>
        \A p \in report.written : clean_and_merge_lines(fs[p]).text = fs[p]

\* a run has dropped blank lines and merged continuation lines, and the
\* file it wrote starts with a continuation line that had no header
C7_Witness ==
    /\ report.tool = "remove_blank_lines" /\ report.outcome = "done"
    /\ \E p \in report.written :
          /\ report.counts[p].original_count > report.counts[p].non_blank
          /\ report.counts[p].non_blank > report.counts[p].merged
          /\ report.counts[p].merged >= 2
          /\ ~is_numbered_line(ReadLines(fs[p])[1])

\* s is a number: one or more digits
AllDigits(s) == s # "" /\ \A k \in 1..Len(s) : Ch(s, k) \in Digits

\* the dialogue number of the line when it starts with a well-formed
\* entry "Line <n> | Dialogue <d> | [<tag>]", as a set of none or one
EntryNumbers(line) ==
    {Slice(line, x[1] + 12, x[2]) :
       x \in UNION {{<<p, q>> : q \in {c \in (p + 12)..Len(line) :
                                        /\ Slice(line, c + 1, c + 4) = " | ["
                                        /\ AllDigits(Slice(line, p + 12, c))
                                        /\ \E k \in (c + 6)..Len(line) : Ch(line, k) = "]"}} :
                    p \in {b \in 7..Len(line) :
                             /\ Slice(line, 1, 5) = "Line "
                             /\ Slice(line, b, b + 11) = " | Dialogue "
                             /\ AllDigits(Slice(line, 6, b - 1))}}}

\* the line k of a log is in the section of an english file: the last
\* "###" header before it names one
InEnglishSection(lines, k) ==
    \E j \in 1..(k - 1) :
       /\ StartsWith(Strip(lines[j]), "### ")
       /\ Contains(Strip(lines[j]), "/english_")
       /\ \A i \in (j + 1)..(k - 1) : ~StartsWith(Strip(lines[i]), "### ")

\* the pool of a log of the lines: the numbers of the well-formed entries
\* of its english sections
PooledNumbers(lines) ==
    UNION {EntryNumbers(Strip(lines[k])) :
             k \in {i \in 1..Len(lines) : InEnglishSection(lines, i)}}

\* the tag_match files of the folders that are not english
TagMatchFiles(f) ==
    {p \in DOMAIN f : /\ Dirname(Dirname(p)) = ActorLines
                      /\ ~StartsWith(Basename(Dirname(p)), "english_")
                      /\ Contains(Basename(p), "_tag_match_")}

\* the lines new are the lines old with the end tag stripped from every
\* line whose number is in the pool
Applied(old, new, pooled) ==
    /\ Len(new) = Len(old)
    /\ \A i \in 1..Len(old) :
          new[i] = IF MayChange(old[i], pooled)
                   THEN remove_end_tag(RStripNL(old[i])) \o "\n" ELSE old[i]

\* the run from the file system f to g took pooled for its pending set
\* and applied it to every tag_match file
Pooling(f, g, pending, pooled) ==
    /\ pending = pooled
    /\ \A p \in TagMatchFiles(f) : Applied(ReadLines(f[p]), ReadLines(g[p]), pooled)

\* C8: End-tag pooling policy: the pending set of a run of remove_end_tags
\* is the union, over the sections of the log that name an english file,
\* of the dialogue numbers of their well-formed entries, entries of other
\* sections or before any section left out; and the run applies this one
\* set to every tag_match file of every folder that is not english.
C8_PoolingPolicy ==
    [][(report'.tool = "remove_end_tags" /\ report'.outcome = "done") =>
          Pooling(fs, fs', report'.pending, PooledNumbers(ReadLines(fs[EndLog])))]_vars

\* a run pooled dialogue 1 from the english sections alone, although the
\* log lists dialogue 2 before the first section and under a hindi file,
\* and stripped lines in the folders of two languages
C8_Witness ==
    /\ report.tool = "remove_end_tags" /\ report.outcome = "done"
    /\ report.pending = {"1"}
    /\ Contains(fs[EndLog], "### " \o HI_N \o "\n  Line 1 | Dialogue 1 | [gasps]\n  Line 2 | Dialogue 2 |")
    /\ StartsWith(Strip(ReadLines(fs[EndLog])[3]), "Line 2 | Dialogue 2 |")
    /\ \E r1 \in Range(report.removed), r2 \in Range(report.removed) :
          Dirname(r1.filepath) # Dirname(r2.filepath)

\* the tag_match file t has the name of the source file s with the
\* "_tag_match" infix, in the directory of s
Corresponds(s, t) ==
    /\ Dirname(s) = Dirname(t)
    /\ EndsWith(s, "_lines.txt") \/ EndsWith(s, "_lines_numbered.txt")
    /\ EndsWith(s, "_lines_numbered.txt") <=> EndsWith(t, "_lines_numbered.txt")
    /\ Replace(Basename(t), "_tag_match", "") = Basename(s)

\* C9: Start-tag propagation is keyed per source file: in a run of
\* remove_lang_start_tags every source file resolves to the tag_match file
\* of its own name, no two source files resolve to the same tag_match
\* file, and every tag removed from a tag_match file is on a line whose
\* number the log lists under a source file that resolved to it.
C9_KeyedPerSourceFile ==
    (report.tool = "remove_lang_start_tags" /\ report.outcome = "done") =>
        /\ \A r \in report.resolved : Corresponds(r[1], r[2])
        /\ \A r1 \in report.resolved, r2 \in report.resolved :
              r1[2] = r2[2] => r1[1] = r2[1]
        /\ \A e \in Range(report.removed) :
              \E r \in report.resolved :
                 r[2] = e.filepath /\ e.dialogue_num \in LoggedNums(report.pending, r[1])

\* the file p is one a propagation run must not touch: an annotated file,
\* a file of an english folder, or a file the sections of the log name
Protected(f, p) ==
    \/ EndsWith(p, "_annotated.txt")
    \/ Contains(p, "/english_")
    \/ Exists(f, EndLog) /\ Contains(f[EndLog], "### " \o p \o "\n")

\* C10: No end-tag propagation run (remove_end_tags, remove_translated)
\* changes an annotated file, a file of an english folder or a file the
\* removal log names.
C10_PropagationSparesProtectedFiles ==
    [][report'.tool \in {"remove_end_tags", "remove_translated"} =>
          \A p \in DOMAIN fs : Protected(fs, p) => fs'[p] = fs[p]]_vars

\* the source file s of the log resolves to no tag_match file of the file
\* system f although it is no english and no tag_match file: its directory
\* is missing, or no tag_match file of the directory has its stem
Unresolved(f, s) ==
    /\ ~Contains(s, "/english_")
    /\ ~Contains(s, "_tag_match_")
    /\ TagMatchCandidates(f, s) = {}

\* what get_tag_match_path returned in a run that resolved the pairs
ListedBy(resolved, sources) ==
    [s \in Range(sources) |->
       IF \E r \in resolved : r[1] = s THEN (CHOOSE r \in resolved : r[1] = s)[2] ELSE None]

\* the run of remove_lang_start_tags with the summary r did to the files
\* old what the loop does over the sources kept alone: loop is what that
\* loop leaves, new the files after the run
AsWithout(old, new, r, kept, loop) ==
    /\ \A p \in DOMAIN old \ {TagMatchLog} : new[p] = loop.fs[p]
    /\ r.removed = loop.acc.removal_log
    /\ r.modified_files = loop.acc.modified_files
    /\ r.resolved = loop.acc.resolved
    /\ \A p \in DOMAIN old \ {TagMatchLog} :
          new[p] # old[p] => \E x \in r.resolved : x[2] = p /\ x[1] \in Range(kept)

\* the loop of remove_lang_start_tags over the sources kept alone, with the
\* listings of the run that left the summary r
LoopOver(f, r, pairs, sources, kept) ==
    RLS_loop(f, pairs, kept, 1, ListedBy(r.resolved, sources), r.dry_run,
             [removal_log |-> <<>>, modified_files |-> 0, written |-> {},
              resolved |-> {}, not_found |-> <<>>, skipped_english |-> 0,
              skipped_tag_match |-> 0, raised |-> FALSE])

\* every source that is unresolved is listed once in not_found, and
\* nothing else is
ListedOnce(not_found, sources, unresolved) ==
    /\ \A s \in Range(sources) : Count(not_found, s) = IF s \in unresolved THEN 1 ELSE 0
    /\ Len(not_found) = Cardinality(unresolved)

\* C11: Unresolved correspondence is non-fatal: in a run of
\* remove_lang_start_tags every logged source file that resolves to no
\* tag_match file is listed once in not_found and nothing else is, no file
\* is written on its account, and the files, the removals and the counts
\* of the run are those of the loop over the other logged source files.
C11_UnresolvedIsNotFatal ==
    [][(report'.tool = "remove_lang_start_tags" /\ report'.outcome = "done") =>
          \A pairs \in {LogPairs(Universal(fs[StartLog]))} :
             \A sources \in {Distinct([i \in 1..Len(pairs) |-> pairs[i][2]])} :
                \A unresolved \in {{s \in Range(sources) : Unresolved(fs, s)}} :
                   \A kept \in {SelectSeq(sources, LAMBDA s : s \notin unresolved)} :
                      /\ ListedOnce(report'.not_found, sources, unresolved)
                      /\ AsWithout(fs, fs', report', kept,
                                   LoopOver(fs, report', pairs, sources, kept))]_vars

\* a run that was no dry run listed a source file without a tag_match file
\* that the log names before the hindi source file, and removed a tag on
\* account of the hindi source file
C11_Witness ==
    /\ report.tool = "remove_lang_start_tags" /\ report.outcome = "done"
    /\ ~report.dry_run
    /\ report.not_found # <<>>
    /\ \E r \in report.resolved : r[1] = HI_L
    /\ report.removed # <<>>
    /\ LoggedSources(fs)[1] \in Range(report.not_found)

\* the batch tools of the pipeline, by the name in their report
BatchTools ==
    {"remove_unlisted", "remove_end_tags", "remove_start_tags", "remove_lang_start_tags",
     "header"}

\* the file system f with nothing to do in the files that cannot be read
Skipping(f) == [p \in DOMAIN f |-> IF Decodable(f[p]) THEN f[p] ELSE ""]

\* the runs a batch tool can make on the file system f
RunsOf(tool, f) ==
    CASE tool = "remove_unlisted" -> {UL_main(f)}
      [] tool = "remove_end_tags" -> {RET_main(f)}
      [] tool = "remove_start_tags" -> {RST_main(f, walk) : walk \in WalkOrders(f)}
      [] tool = "remove_lang_start_tags" ->
            {RLS_main(f, listed, FALSE) :
               listed \in {l \in Listings(f, LoggedSources(f)) :
                             \A p \in DOMAIN l :
                                IF TagMatchCandidates(f, p) = {} THEN l[p] = None
                                ELSE l[p] \in TagMatchCandidates(f, p)}}
      [] tool = "header" -> {H_main(f)}

\* C12: a read failure on one file never aborts a batch.  When a batch tool
\* runs on a corpus with a file that cannot be read, the run ends as a run
\* that had nothing to do in this file: with its outcome, with every other
\* file and the log as this run leaves them, and the failing file as it was.
C12_FailingFileIsSkipped ==
    [][(report'.tool \in BatchTools /\ Unreadable(fs) # {} /\ Exists(fs, StartLog)) =>
          \E r \in RunsOf(report'.tool, Skipping(fs)) :
             /\ report'.outcome = r.report.outcome
             /\ DOMAIN fs' = DOMAIN r.fs
             /\ \A p \in DOMAIN fs' :
                   fs'[p] = IF p \in Unreadable(fs) THEN fs[p] ELSE r.fs[p]]_vars

\* C13: a run of remove_end_tags, remove_unlisted or remove_start_tags
\* whose corpus root directory is missing, and a run of remove_end_tags
\* whose removal log is missing, changes no file and creates or overwrites
\* no log.
C13_NoPartialWork ==
    [][(/\ report'.tool \in {"remove_end_tags", "remove_unlisted", "remove_start_tags"}
        /\ \/ ~DirExists(fs, ActorLines)
           \/ report'.tool = "remove_end_tags" /\ ~Exists(fs, EndLog))
       => fs' = fs]_vars

\* C14: header regeneration is stable.  After a run of header.py,
\* process_file on a file the run has written leaves the file as it is.
C14_HeaderRegenerationStable ==
    [][report'.tool = "header" =>
          \A p \in report'.written :
             H_process_file(fs'[p], ~StartsWith(Basename(Dirname(p)), "english_")).text
               = fs'[p]]_vars

\* the number a str of digits writes, among 0..top; top + 1 for any other
\* str
NumberIn(piece, top) ==
    IF \E n \in 0..top : ToStr(n) = piece THEN CHOOSE n \in 0..top : ToStr(n) = piece
    ELSE top + 1

\* the numbers, up to top, that a str of ranges "a", "a-b" separated by
\* ", " denotes
Expand(ranges, top) ==
    LET Of(piece) ==
            IF Contains(piece, "-")
            THEN NumberIn(Slice(piece, 1, FindFrom(piece, "-", 1) - 1), top)
                 .. NumberIn(Slice(piece, FindFrom(piece, "-", 1) + 1, Len(piece)), top)
            ELSE {NumberIn(piece, top)}
        Pieces(q) == UNION {Of(q[i]) : i \in 1..Len(q)}
    IN  IF ranges = "" THEN {} ELSE Pieces(SplitNL(Replace(ranges, ", ", "\n")))

\* the ranges the index of the lines q gives for key, in its line
\* "# <key>: <ranges>  # <n> lines"; "" without such a line
IndexEntry(q, key) ==
    LET Entry(line) == Slice(line, Len(key) + 5, FindFrom(line, "  # ", 1) - 1)
        Of(entries) == IF entries = <<>> THEN "" ELSE Entry(entries[1])
    IN  Of(SelectSeq(q, LAMBDA line : StartsWith(line, "# " \o key \o ": ")))

\* the dialogue numbers of the lines q, up to top, whose line starts with
\* the number and a tag that starts with open
NumbersOf(q, open, top) ==
    {n \in 0..top : \E i \in 1..Len(q) : StartsWith(q[i], ToStr(n) \o ". [" \o open)}

\* the dialogue numbers of the lines q, up to top, whose line starts with
\* the number and a composite tag of the sub-facet sub
NumbersOfFacet(q, sub, top) ==
    {n \in 0..top :
       \E i \in 1..Len(q) :
          /\ StartsWith(q[i], ToStr(n) \o ". [")
          /\ Contains(q[i], "|" \o sub \o "]")
          /\ FindFrom(q[i], "|", 1) + Len(sub) + 1 = FindFrom(q[i], "]", 1)}

\* the files a run of header.py has written an index into, of those that
\* were in the inline-tag style: no line is a section header
Indexed(f, g, written) ==
    {p \in written :
       /\ Contains(g[p], "# === CONTENT TYPE ===")
       /\ \A line \in Range(SplitNL(f[p])) : parse_section_header(line) = None}

\* the index a run of header.py on the file of lines old has left in the
\* lines new says of every content type the dialogues tagged with it, and
\* of every professionalism the dialogues whose composite tag has it
IndexOfTags(old, new) ==
    /\ \A ct \in {"dialogue", "general_tags", "simple_tags", "customer_support", "monologue"} :
          Expand(IndexEntry(new, ct), Len(old))
            = NumbersOf(old, ct \o "]", Len(old)) \cup NumbersOf(old, ct \o "|", Len(old))
    /\ \A sub \in {"casual", "professional"} :
          Expand(IndexEntry(new, sub), Len(old)) = NumbersOfFacet(old, sub, Len(old))

C16_ProfessionalismOfCustomerSupportOnly ==
    [][report'.tool = "header" =>
          \A p \in Indexed(fs, fs', report'.written) :
             \A old \in {SplitNL(fs[p])}, new \in {SplitNL(fs'[p])} :
                \A sub \in {"casual", "professional"} :
                   Expand(IndexEntry(new, sub), Len(old))
                     \subseteq NumbersOf(old, "customer_support|", Len(old))]_vars

\* the runs <<a, b>> that the pieces "a" and "a-b" of a str of ranges
\* write, with numbers up to top; a piece that writes no run gives <<1, 0>>
RunsIn(ranges, top) ==
    LET Of(piece) ==
            IF Contains(piece, "-")
            THEN (LET a == NumberIn(Slice(piece, 1, FindFrom(piece, "-", 1) - 1), top)
                      b == NumberIn(Slice(piece, FindFrom(piece, "-", 1) + 1, Len(piece)), top)
                  IN  IF a < b /\ b <= top THEN <<a, b>> ELSE <<1, 0>>)
            ELSE (LET a == NumberIn(piece, top)
                  IN  IF a <= top THEN <<a, a>> ELSE <<1, 0>>)
        Pieces(q) == [i \in 1..Len(q) |-> Of(q[i])]
    IN  IF ranges = "" THEN <<>> ELSE Pieces(SplitNL(Replace(ranges, ", ", "\n")))

\* runs lists, in ascending order, the maximal runs of consecutive numbers
\* of the set S
MaximalRuns(runs, S) ==
    /\ \A i \in 1..Len(runs) : runs[i][1] <= runs[i][2]
    /\ \A i \in 1..(Len(runs) - 1) : runs[i + 1][1] > runs[i][2] + 1
    /\ UNION {runs[i][1]..runs[i][2] : i \in 1..Len(runs)} = S

\* C17: range compression.  ranges_to_string of a list of positive numbers,
\* in any order and with duplicates, is the list, separated by ", ", of the
\* maximal runs of consecutive numbers of the set in ascending order, a run
\* of one number written "a" and a longer run "a-b"; it is "" for the empty
\* list and "1-3, 5, 7-9" for the numbers 1, 2, 3, 5, 7, 8, 9.
C17_RangeCompression ==
    report.tool = "ranges_to_string" =>
       \A S \in {Range(report.numbers)} :
          /\ MaximalRuns(RunsIn(report.ranges, Max(S \cup {0})), S)
          /\ report.numbers = <<>> => report.ranges = ""
          /\ S = {1, 2, 3, 5, 7, 8, 9} => report.ranges = "1-3, 5, 7-9"

\* the numbers of the example, out of order and with a duplicate, are
\* compressed
C17_Witness ==
    /\ report.tool = "ranges_to_string"
    /\ report.numbers = <<9, 7, 8, 5, 3, 1, 2, 3>>
    /\ report.ranges = "1-3, 5, 7-9"

\* the strings a and b differ at most in the case of their letters
SameButCase(a, b) ==
    /\ Len(a) = Len(b)
    /\ \A k \in 1..Len(a) :
          \/ Ch(a, k) = Ch(b, k)
          \/ \E j \in 1..Len(Upper) : {Ch(a, k), Ch(b, k)} = {Ch(Upper, j), Ch(Lowercase, j)}

\* the entries <<filepath, line_num, tag>> of a list of removals
EntriesOf(removed) ==
    {<<removed[i].filepath, removed[i].line_num, removed[i].tag>> : i \in 1..Len(removed)}

\* the end tags of the file p of f that no entry of the allow-list equals
\* but for the case, as <<p, line_num, tag>>
Unlisted(f, p) ==
    LET Of(lines) ==
            {<<p, i, extract_end_tag(RStripNL(lines[i]))>> :
               i \in {j \in 1..Len(lines) :
                        /\ extract_end_tag(RStripNL(lines[j])) # None
                        /\ \A e \in ALLOWED_TAGS :
                              ~SameButCase(extract_end_tag(RStripNL(lines[j])), e)}}
    IN  Of(ReadLines(f[p]))

\* C18: the validation against the allow-list is case-insensitive and
\* exact.  A run of remove_unlisted removes the end tags of its target
\* files that differ from every entry of the allow-list by more than the
\* case of letters, and leaves every other line as it is; a run of
\* check_tags flags the same lines and tags as remove_unlisted removes from
\* the same files, and changes none of them.
C18_AllowListValidation ==
    [][\A targets \in {Range(UL_find_target_files(fs))} :
          /\ report'.tool \in {"remove_unlisted", "check_tags"} =>
                EntriesOf(report'.removed) = UNION {Unlisted(fs, p) : p \in targets}
          /\ report'.tool = "remove_unlisted" =>
                \A p \in targets :
                   \A lines \in {ReadLines(fs[p])}, after \in {ReadLines(fs'[p])} :
                      /\ Len(after) = Len(lines)
                      /\ \A i \in 1..Len(lines) :
                            IF \E e \in Unlisted(fs, p) : e[2] = i
                            THEN after[i] = EndTagSub(RStripNL(lines[i])) \o "\n"
                            ELSE after[i] = lines[i]
          /\ report'.tool = "check_tags" =>
                /\ report'.removed = UL_main(fs).report.removed
                /\ \A p \in targets : fs'[p] = fs[p]]_vars

\* remove_unlisted has removed a tag that is not on the allow-list and has
\* kept a tag that differs from an entry by the case
C18_Witness ==
    /\ report.tool = "remove_unlisted"
    /\ \E i \in 1..Len(report.removed) :
          report.removed[i].filepath = EN1N /\ report.removed[i].tag = "[gasps]"
    /\ Contains(fs[EN1N], "Hello [Sighs]\n")

\* C19: a file is written only if its content changed.  In a run of
\* remove_blank_lines a file that is cleaned in place, whose cleaned text
\* is the text it had, is not written.
C19_WrittenOnlyIfChanged ==
    [][report'.tool = "remove_blank_lines" =>
          \A p \in report'.written :
             (/\ p \in DOMAIN fs
              /\ p = report'.target \/ Dirname(p) = report'.target)
             => clean_and_merge_lines(fs[p]).text # fs[p]]_vars

\* C20: the dry run of the start-tag propagation.  A run with --dry-run
\* writes no file, and the numbers of tag_match files and of tags it
\* reports are those of the run without --dry-run on the same files.
C20_DryRunReportsTheRealRun ==
    [][(/\ report'.tool = "remove_lang_start_tags"
        /\ report'.outcome = "done"
        /\ report'.dry_run)
       => /\ fs' = fs
          /\ \A real \in {RLS_main(fs, ListedBy(report'.resolved, LoggedSources(fs)),
                                   FALSE).report} :
                /\ report'.modified_files = real.modified_files
                /\ Len(report'.removed) = Len(real.removed)]_vars

\* the positions of a line where remove_silent_tags_at_start looks for a
\* tag: after the number and its ".", at the very start, after the label
\* that the first ":" ends
StartPositions(line) ==
    {1}
    \cup {k + 2 + RunLen(line, k + 2, Whitespace) :
            k \in {j \in {RunLen(line, 1, Digits)} : j >= 1 /\ Ch(line, j + 1) = "."}}
    \cup {c + 1 + RunLen(line, c + 1, Whitespace) :
            c \in {j \in {FindFrom(line, ":", 1)} : j >= 2}}

\* a tag of the denylist stands at a start position of the line
SilentAtStart(line) ==
    \E j \in StartPositions(line), k \in 1..Len(SILENT_TAGS) :
       Slice(line, j, j + Len(SILENT_TAGS[k]) + 1) = "[" \o SILENT_TAGS[k] \o "]"

\* the files remove_start_tags.py walks
WalkedFiles(f) == {p \in DOMAIN f : StartsWith(p, ActorLines \o "/") /\ EndsWith(p, ".txt")}

\* the line i of the file p, before and after a run, follows the scenario of
\* the silent start tags
SilentScenario(before, after, removed, p, i) ==
    /\ \A m \in {StartTagMatch(before)} \ {<<>>} :
          IF \E k \in 1..Len(SILENT_TAGS) : SILENT_TAGS[k] = Slice(before, m[2] + 1, m[3] - 1)
          THEN /\ StartsWith(after, Slice(before, 1, m[1]) \o ". ")
               /\ \A rest \in {Slice(before, 1, m[1]) \o ". " \o Slice(before, m[4], Len(before))} :
                     ~SilentAtStart(rest) => after = rest
               /\ \E e \in Range(removed) :
                     /\ e.filepath = p /\ e.file_line = i
                     /\ e.dialogue_num = Slice(before, 1, m[1])
                     /\ e.tag = Slice(before, m[2] + 1, m[3] - 1)
          ELSE \A a \in {StartTagMatch(after)} :
                  /\ a # <<>>
                  /\ Slice(after, a[2], a[3]) = Slice(before, m[2], m[3])
    /\ ~SilentAtStart(before) =>
          /\ after = before
          /\ \A e \in Range(removed) : ~(e.filepath = p /\ e.file_line = i)

C26_SilentRemovalIdempotent ==
    [][(report'.tool = "remove_start_tags" /\ report'.outcome = "done") =>
          \A p \in WalkedFiles(fs) :
             remove_silent_tags_at_start(fs'[p], p).text = fs'[p]]_vars

\* the dialogue numbers a run of remove_lang_start_tags.py looked for in
\* the tag_match file p, from the summary r of the run
TargetNums(r, p) ==
    {e[1] : e \in {x \in r.pending : <<x[2], p>> \in r.resolved}}

\* C22: the propagation of start tags deletes and joins no line: a
\* tag_match file that a run of remove_lang_start_tags.py has written has
\* as many lines as before, every line starts with the dialogue number it
\* had, and every line whose number was not looked for is as it was.
C22_PropagationKeepsLines ==
    [][(report'.tool = "remove_lang_start_tags" /\ report'.outcome = "done"
        /\ ~report'.dry_run) =>
          \A p \in report'.written :
             \A before \in {ReadLines(fs[p])}, after \in {ReadLines(fs'[p])} :
                /\ Len(after) = Len(before)
                /\ \A i \in 1..Len(before) :
                      /\ Slice(after[i], 1, RunLen(after[i], 1, Digits) + 1)
                           = Slice(before[i], 1, RunLen(before[i], 1, Digits) + 1)
                      /\ Slice(before[i], 1, RunLen(before[i], 1, Digits))
                            \notin TargetNums(report', p) => after[i] = before[i]]_vars

\* the line i of a file of content text without its line end, "" where
\* the file has no such line
LineAt(text, i) == IF i <= Len(ReadLines(text)) THEN RStripNL(ReadLines(text)[i]) ELSE ""

\* C23: the removal of an end tag keeps the join key: a numbered line that
\* a run of remove_unlisted.py or of remove_end_tags.py has changed still
\* yields, under extract_dialogue_number, the dialogue number it had.
C23_RemovalKeepsDialogueNumber ==
    [][(report'.tool \in {"remove_unlisted", "remove_end_tags"} /\ report'.outcome = "done") =>
          \A e \in Range(report'.removed) :
             extract_dialogue_number(LineAt(fs[e.filepath], e.line_num)) # None
             => extract_dialogue_number(LineAt(fs'[e.filepath], e.line_num))
                  = extract_dialogue_number(LineAt(fs[e.filepath], e.line_num))]_vars

\* the line is exactly "<n>. [tag]"
NumberAndTag(line) ==
    \A m \in {StartTagMatch(line)} :
       m # <<>> /\ m[2] = m[1] + 3 /\ Ch(line, m[1] + 2) = " " /\ m[3] = Len(line)

\* C24: a line that is exactly "<n>. [tag]" is reported as a start tag by
\* find_start.py, and the scripts that look for end tags (check_tags.py,
\* remove_unlisted.py, remove_end_tags.py) report and remove nothing on it.
C24_NumberAndTagIsAStartTagOnly ==
    [][(report'.tool \in {"find_start", "check_tags", "remove_unlisted", "remove_end_tags"}
        /\ report'.outcome = "done") =>
          /\ report'.tool = "find_start" =>
                \A p \in Range(FS_find_target_files(fs)) :
                   \A i \in 1..Len(ReadLines(fs[p])) :
                      NumberAndTag(LineAt(fs[p], i)) =>
                         \E e \in Range(report'.removed) : e.filepath = p /\ e.line_num = i
          /\ report'.tool # "find_start" =>
                \A e \in Range(report'.removed) :
                   ~NumberAndTag(LineAt(fs[e.filepath], e.line_num))]_vars

\* C25: one pass of remove_unlisted.py is complete: in a file it has
\* processed, no line ends with a tag outside the allow-list, so that
\* process_file of remove_unlisted.py removes nothing more and process_file
\* of check_tags.py reports nothing.
C25_OnePassRemovesAll ==
    [][(report'.tool = "remove_unlisted" /\ report'.outcome = "done") =>
          \A p \in Range(UL_find_target_files(fs)) :
             /\ UL_process_file(fs'[p]).removed = <<>>
             /\ CT_process_file(fs'[p]).removed = <<>>]_vars

\* the removal log a removal script writes
RemovalLogOf(tool) ==
    CASE tool = "remove_unlisted" -> EndLog
      [] tool = "remove_start_tags" -> StartLog
      [] tool = "remove_lang_start_tags" -> TagMatchLog

\* C27: every persisted mutation is logged: when a run of a removal script
\* has stopped, completed or failed, every corpus file it has rewritten is
\* named by an entry of the removal log the script has written.
C27_PersistedRemovalsAreLogged ==
    [][report'.tool \in {"remove_unlisted", "remove_start_tags", "remove_lang_start_tags"} =>
          \A p \in DOMAIN fs :
             (StartsWith(p, ActorLines \o "/") /\ fs'[p] # fs[p]) =>
                /\ RemovalLogOf(report'.tool) \in DOMAIN fs'
                /\ Contains(fs'[RemovalLogOf(report'.tool)], p)]_vars

\* a line, without its line end, that is a number, "." and whitespace,
\* with or without blanks before the number
HeaderLine(line) ==
    \E k \in {RunLen(line, 1, {" ", "\t"})} :
       \E n \in {RunLen(line, k + 1, Digits)} :
          n >= 1 /\ Ch(line, k + n + 1) = "." /\ Ch(line, k + n + 2) \in Whitespace

RECURSIVE RecordsOf(_, _, _)
\* the records of the lines from i on: a header line opens a record, any
\* other line that is not blank continues the last one or, before the
\* first header, the leading record; blank lines are passed over
RecordsOf(lines, i, records) ==
    IF i > Len(lines) THEN records
    ELSE IF Strip(lines[i]) = "" THEN RecordsOf(lines, i + 1, records)
    ELSE IF HeaderLine(RStripNL(lines[i])) \/ records = <<>>
    THEN RecordsOf(lines, i + 1, Append(records, <<RStrip(lines[i])>>))
    ELSE RecordsOf(lines, i + 1,
                   [records EXCEPT ![Len(records)] = Append(@, RStrip(lines[i]))])

\* the text the merger is to write for an input: a line for every record,
\* the lines of the record joined with single spaces
MergedShape(text) ==
    LET Written(records) ==
            Concat([k \in 1..Len(records) |-> Join(" ", records[k]) \o "\n"])
    IN  Written(RecordsOf(ReadLines(text), 1, <<>>))

\* C28: merger output shape: clean_and_merge_lines drops every blank line
\* and writes one record per header line (a number, "." and whitespace),
\* the header and the lines that follow it up to the next header joined
\* with single spaces in the order of the input; the lines before the
\* first header form one leading record.
C28_MergerOutputShape ==
    [][(report'.tool = "remove_blank_lines" /\ report'.outcome = "done") =>
          \A p \in report'.written :
             fs'[p] = MergedShape(IF report'.target \in DOMAIN fs
                                  THEN fs[report'.target] ELSE fs[p])]_vars

\* the content type of the section header seen last before the line i of
\* lines, None if there is none before it
SectionBefore(lines, i) ==
    LET Last(seen) == IF seen = {} THEN None ELSE parse_section_header(lines[Max(seen)])
    IN  Last({j \in 1..(i - 1) : parse_section_header(lines[j]) # None})

\* the numbered lines of a text
NumberedLines(text) == SelectSeq(SplitNL(text), LAMBDA line : parse_line_number(line) # <<>>)

\* the numbered lines of lines that stand under a section header, by index
UnderSection(lines) ==
    SelectSeq([i \in 1..Len(lines) |-> i],
              LAMBDA i : parse_line_number(lines[i]) # <<>> /\ SectionBefore(lines, i) # None)

\* a file of the translated style, old, and what a run with back-fill made
\* of it, new, with the content types the run has counted: every numbered
\* line under a section header counts for the content type of the header
\* seen last before it, and no other line counts; the lines of the numbers
\* that were counted carry the tag of their section after the number; a
\* second run leaves the numbered lines as they are
SectionClassified(old, new, content_types, under) ==
    /\ content_types = [k \in 1..Len(under) |->
                          <<SectionBefore(old, under[k]), parse_line_number(old[under[k]])[1]>>]
    /\ \A k \in 1..Len(under) :
          \A line \in Range(SplitNL(new)) :
             parse_line_number(line) = parse_line_number(old[under[k]]) =>
                StartsWith(line, ToStr(parse_line_number(line)[1]) \o ". ["
                                 \o SectionBefore(old, under[k]) \o "]")
    /\ NumberedLines(H_process_file(new, TRUE).text) = NumberedLines(new)

IndexCount(q, key) ==
    LET Lines(line) == ToInt(Slice(line, FindFrom(line, "  # ", 1) + 4, Len(line) - 6))
        Of(entries) == IF entries = <<>> THEN 0 ELSE Lines(entries[1])
    IN  Of(SelectSeq(q, LAMBDA line : StartsWith(line, "# " \o key \o ": ")))

\* the index of the lines new, written for a file of the lines old: the
\* footer gives the number of the numbered lines of the file, and the count
\* of every entry the number of dialogues its ranges denote
TotalsOfIndex(old, new) ==
    /\ \E i \in 1..Len(new) :
          new[i] = "# TOTAL: "
                   \o ToStr(Len(SelectSeq(old, LAMBDA line : parse_line_number(line) # <<>>)))
                   \o " speaker lines"
    /\ \A key \in {"dialogue", "general_tags", "simple_tags", "customer_support", "monologue",
                   "casual", "professional"} :
          IndexCount(new, key) = Cardinality(Expand(IndexEntry(new, key), MaxNumber))

\* C30: the TOTAL footer of the header is the total line count: the number
\* header.process_file writes after "TOTAL:" is the number of numbered
\* dialogue lines of the file, and the count "# <k> lines" of each entry is
\* the number of distinct dialogue numbers in the ranges of the entry,
\* also when the dialogue numbers are not contiguous.
C30_TotalIsTheLineCount ==
    [][(report'.tool = "header" /\ report'.outcome = "done") =>
          \A p \in report'.written :
             TotalsOfIndex(SplitNL(fs[p]), SplitNL(fs'[p]))]_vars

====
